---- MODULE Spec2Model ----
(***************************************************************************)
(* Notes manager: the notes reducer, the notes orchestrator (NotesContext) *)
(* and the editor's debounced autosave with its epoch guard.               *)
(*                                                                         *)
(* A note is a record [id, title, content, isPinned, updatedAt]; a note the *)
(* API service returns has no isPinned.                                    *)
(* updatedAt is a time stamp 1..MaxStamp; 0 stands for every value that    *)
(* getUpdatedAt reads as the empty string (missing, undefined, non-string).*)
(* ISO-8601 stamps compare under localeCompare as the integers do.         *)
(* A patch is a record over a subset of the note's fields.                 *)
(***************************************************************************)
EXTENDS Integers, Sequences, FiniteSets, TLC

\* ---------------------------------------------------------------- bounds
MaxStamp == 2

NULL == "null"
Ids == {"a", "b", "c"}
Stamps == 0..MaxStamp
Titles == {"T1", "T2"}
Contents == {"C1", "C2"}

\* -------------------------------------------------------------- reducer
initialNotesState ==
  [notes |-> << >>, selectedId |-> NULL, filter |-> "", status |-> "idle",
   error |-> NULL, isListOpenMobile |-> FALSE]

getUpdatedAt(note) == IF "updatedAt" \in DOMAIN note THEN note.updatedAt ELSE 0

getIsPinned(note) == IF "isPinned" \in DOMAIN note THEN note.isPinned ELSE FALSE

\* The comparator of the sort without its index tie-break: a goes strictly
\* before b.
SortsBefore(a, b) ==
  IF getIsPinned(a) # getIsPinned(b) THEN getIsPinned(a)
  ELSE getUpdatedAt(a) > getUpdatedAt(b)

\* Insert x behind every element that does not go strictly after it: with the
\* elements inserted in array order this is the stable sort of the comparator.
RECURSIVE InsertSorted(_, _)
InsertSorted(sorted, x) ==
  IF sorted = << >> THEN << x >>
  ELSE IF SortsBefore(x, Head(sorted)) THEN << x >> \o sorted
  ELSE << Head(sorted) >> \o InsertSorted(Tail(sorted), x)

RECURSIVE SortFrom(_, _)
SortFrom(acc, rest) ==
  IF rest = << >> THEN acc ELSE SortFrom(InsertSorted(acc, Head(rest)), Tail(rest))

sortNotesPinnedThenUpdatedDesc_unsorted(notes) == notes

sortNotesPinnedThenUpdatedDesc(notes) == SortFrom(<< >>, notes)

\* Array.prototype.findIndex, 1-based; 0 stands for -1.
findIndex(notes, id) ==
  IF \E i \in 1..Len(notes) : notes[i].id = id
  THEN CHOOSE i \in 1..Len(notes) :
         notes[i].id = id /\ \A j \in 1..(i - 1) : notes[j].id # id
  ELSE 0

\* { ...note, ...patch }
Merge(note, patch) ==
  [f \in DOMAIN note \cup DOMAIN patch |->
     IF f \in DOMAIN patch THEN patch[f] ELSE note[f]]

ReplaceAt(notes, idx, updated) ==
  [i \in 1..Len(notes) |-> IF i = idx THEN updated ELSE notes[i]]

\* notes[0]?.id ?? null
FirstIdOrNull(notes) == IF Len(notes) > 0 THEN notes[1].id ELSE NULL

\* a ?? b
Nullish(a, b) == IF a # NULL THEN a ELSE b

\* a || b on message strings
OrElse(a, b) == IF a # NULL /\ a # "" THEN a ELSE b

LOAD_START(state, action) == [state EXCEPT !.status = "loading", !.error = NULL]

LOAD_SUCCESS(state, action) ==
  [state EXCEPT !.status = "idle",
                !.notes = sortNotesPinnedThenUpdatedDesc(action.notes),
                !.selectedId =
                  Nullish(action.selectedId,
                          Nullish(state.selectedId, FirstIdOrNull(action.notes))),
                !.error = NULL]

LOAD_ERROR(state, action) ==
  [state EXCEPT !.status = "error",
                !.error = OrElse(action.error, "Failed to load notes.")]

SET_FILTER(state, action) == [state EXCEPT !.filter = action.value]

SELECT_NOTE(state, action) ==
  [state EXCEPT !.selectedId = action.id, !.isListOpenMobile = FALSE]

TOGGLE_LIST_MOBILE(state, action) ==
  [state EXCEPT !.isListOpenMobile = ~state.isListOpenMobile]

CREATE_NOTE(state, action) ==
  [state EXCEPT !.notes =
                  sortNotesPinnedThenUpdatedDesc(<< action.note >> \o state.notes),
                !.selectedId = action.note.id,
                !.isListOpenMobile = FALSE]

\* A reducer that inserts the patch as a new note when the id is unknown.
UPDATE_NOTE_upsert(state, action) ==
  LET idx == findIndex(state.notes, action.id) IN
  IF idx = 0
  THEN [state EXCEPT !.notes =
          sortNotesPinnedThenUpdatedDesc(
            Append(state.notes,
                   Merge([id |-> action.id, title |-> "T1", content |-> "C1",
                          isPinned |-> FALSE, updatedAt |-> 0], action.patch)))]
  ELSE [state EXCEPT !.notes =
          sortNotesPinnedThenUpdatedDesc(
            ReplaceAt(state.notes, idx, Merge(state.notes[idx], action.patch)))]

UPDATE_NOTE(state, action) ==
  LET idx == findIndex(state.notes, action.id) IN
  IF idx = 0 THEN state
  ELSE [state EXCEPT !.notes =
          sortNotesPinnedThenUpdatedDesc(
            ReplaceAt(state.notes, idx, Merge(state.notes[idx], action.patch)))]

TOGGLE_PIN_NOTE(state, action) ==
  LET idx == findIndex(state.notes, action.id) IN
  IF idx = 0 THEN state
  ELSE [state EXCEPT !.notes =
          sortNotesPinnedThenUpdatedDesc(
            ReplaceAt(state.notes, idx,
              Merge(state.notes[idx], [isPinned |-> ~getIsPinned(state.notes[idx])])))]

\* A reducer that moves the selection to the last remaining note.
DELETE_NOTE_selectLast(state, action) ==
  LET remaining == SelectSeq(state.notes, LAMBDA n : n.id # action.id) IN
  [state EXCEPT !.notes = remaining,
                !.selectedId =
                  IF state.selectedId = action.id
                  THEN (IF Len(remaining) > 0 THEN remaining[Len(remaining)].id ELSE NULL)
                  ELSE state.selectedId]

DELETE_NOTE(state, action) ==
  LET remaining == SelectSeq(state.notes, LAMBDA n : n.id # action.id) IN
  [state EXCEPT !.notes = remaining,
                !.selectedId =
                  IF state.selectedId = action.id
                  THEN FirstIdOrNull(remaining) ELSE state.selectedId]

SAVE_START(state, action) == [state EXCEPT !.status = "saving", !.error = NULL]

SAVE_END(state, action) == [state EXCEPT !.status = "idle"]

SAVE_ERROR(state, action) ==
  [state EXCEPT !.status = "error", !.error = OrElse(action.error, "Failed to save.")]

\* Every other action type, BULK_PIN_NOTES and BULK_DELETE_NOTES included,
\* takes the default branch.
notesReducer(state, action) ==
  CASE action.type = "LOAD_START" -> LOAD_START(state, action)
    [] action.type = "LOAD_SUCCESS" -> LOAD_SUCCESS(state, action)
    [] action.type = "LOAD_ERROR" -> LOAD_ERROR(state, action)
    [] action.type = "SET_FILTER" -> SET_FILTER(state, action)
    [] action.type = "SELECT_NOTE" -> SELECT_NOTE(state, action)
    [] action.type = "TOGGLE_LIST_MOBILE" -> TOGGLE_LIST_MOBILE(state, action)
    [] action.type = "CREATE_NOTE" -> CREATE_NOTE(state, action)
    [] action.type = "UPDATE_NOTE" -> UPDATE_NOTE(state, action)
    [] action.type = "TOGGLE_PIN_NOTE" -> TOGGLE_PIN_NOTE(state, action)
    [] action.type = "DELETE_NOTE" -> DELETE_NOTE(state, action)
    [] action.type = "SAVE_START" -> SAVE_START(state, action)
    [] action.type = "SAVE_END" -> SAVE_END(state, action)
    [] action.type = "SAVE_ERROR" -> SAVE_ERROR(state, action)
    [] OTHER -> state

\* ------------------------------------------------------------ variables
VARIABLES
  state,   \* the reducer state held by useReducer
  last,    \* the reducer action dispatched last, with its arguments
  ops,     \* the intents whose service calls have not all settled, oldest first
  ret,     \* what the step taken last did: the intent, its phase and its result
  editor,  \* NoteEditor: its useState values, its refs and its effect bookkeeping
  timers,  \* the browser's pending timeouts set by the editor
  hist,    \* history of the editor: handles handed out, last edit, explicit saves
  env,     \* process.env: the REACT_APP_* variables that are set, with their values
  storage  \* localStorage: the item stored under STORAGE_KEY

vars == << state, last, ops, ret, editor, timers, hist, env, storage >>

\* type: the action's type; id: its id (LOAD_SUCCESS: its selectedId);
\* ids: its ids (LOAD_SUCCESS: the id of the first note of its notes);
\* flag: its isPinned (DELETE_NOTE: whether the id was the selected one).
Last(type, id, ids, flag) == [id |-> id, type |-> type, ids |-> ids, flag |-> flag]

NoAction == Last("none", NULL, {}, FALSE)

NoteIds(notes) == {notes[i].id : i \in 1..Len(notes)}

\* value: "pending", "true", "false", "null" or "note"; error: the message of
\* the failure; input: the ids given to a bulk intent; calls: the ids it called
\* the service for, in call order; failed, errors, left: of a bulk intent, the
\* calls that failed, the SAVE_ERRORs dispatched and the calls still out;
\* handle: the timeout that ran.
Ret(intent, phase, value) ==
  [intent |-> intent, phase |-> phase, value |-> value, id |-> NULL, error |-> NULL,
   input |-> << >>, calls |-> << >>, failed |-> 0, errors |-> 0, left |-> 0,
   handle |-> 0]

NoRet == Ret("none", "none", "pending")

\* The editor after its first render and mount effects: the epoch effect has
\* run once with no note selected.
initialEditor ==
  [draftTitle |-> "", draftContent |-> "", dirty |-> FALSE,
   autosaveEpochRef |-> 1, timer |-> 0,
   deps |-> << NULL, NULL, NULL, FALSE >>, passive |-> FALSE]

NoPatch == [title |-> NULL, content |-> NULL]

NoRace == [id |-> NULL, title |-> NULL, content |-> NULL]

\* nextHandle: the handle setTimeout returns next; lastEdit: the patch of the
\* last edit; coalesced: the edits since a timeout last ran or was cleared by
\* another handler than an edit; superseded: the handles of the timeouts that
\* were pending when onSaveNow ran; raced: the id and patch of the explicit
\* save issued last, if an autosave of that note was in flight then.
initialHist ==
  [nextHandle |-> 1, lastEdit |-> NoPatch, coalesced |-> 0, superseded |-> {},
   raced |-> NoRace]

\* A string of process.env is the sequence of its characters; a variable that
\* is not set is not in the domain of env.  ApiEnv: a build with the API base
\* set.
ApiEnv == [REACT_APP_API_BASE |-> << "u" >>]

\* localStorage.getItem(STORAGE_KEY): kind "absent" is null, "unparsable" a
\* string JSON.parse throws on, "null" the JSON null, "object" a JSON value
\* that is no array, "array" a JSON array, its elements in notes.
NoStorage == [kind |-> "absent", notes |-> << >>]

\* ------------------------------------------- the reducer under dispatch
LoadedNote == [id : Ids, title : {"T1"}, content : {"C1"},
               isPinned : BOOLEAN, updatedAt : Stamps]

\* Lists of at most n notes with distinct ids, in any order.
RECURSIVE ListsOver(_, _)
ListsOver(ids, n) ==
  IF n = 0 THEN {<< >>}
  ELSE {<< >>} \cup
       UNION {{<< x >> \o rest : rest \in ListsOver(ids \ {x.id}, n - 1)} :
              x \in {y \in LoadedNote : y.id \in ids}}

LoadLists == ListsOver(Ids, 2)

ReducerPatches ==
  [updatedAt : Stamps] \cup [isPinned : BOOLEAN] \cup [title : {"T1"}, updatedAt : Stamps]

BulkIdSets == {{"a"}, {"a", "b"}, {"b", "c"}}

Dispatch(action, l) ==
  /\ state' = notesReducer(state, action)
  /\ last' = l
  /\ UNCHANGED << ops, ret, editor, timers, hist, env, storage >>

DispatchLoadSuccess ==
  \E notes \in LoadLists, sel \in {NULL, "b"} :
    Dispatch([type |-> "LOAD_SUCCESS", notes |-> notes, selectedId |-> sel],
             Last("LOAD_SUCCESS", sel, {FirstIdOrNull(notes)}, FALSE))

DispatchSelectNote ==
  \E id \in Ids :
    Dispatch([type |-> "SELECT_NOTE", id |-> id], Last("SELECT_NOTE", id, {}, FALSE))

DispatchCreateNote ==
  \E note \in LoadedNote :
    /\ note.id \notin NoteIds(state.notes)
    /\ Dispatch([type |-> "CREATE_NOTE", note |-> note],
                Last("CREATE_NOTE", note.id, {}, FALSE))

DispatchUpdateNote ==
  \E id \in Ids, patch \in ReducerPatches :
    Dispatch([type |-> "UPDATE_NOTE", id |-> id, patch |-> patch],
             Last("UPDATE_NOTE", id, {}, FALSE))

DispatchTogglePinNote ==
  \E id \in Ids :
    Dispatch([type |-> "TOGGLE_PIN_NOTE", id |-> id], Last("TOGGLE_PIN_NOTE", id, {}, FALSE))

DispatchDeleteNote ==
  \E id \in Ids :
    Dispatch([type |-> "DELETE_NOTE", id |-> id],
             Last("DELETE_NOTE", id, {}, state.selectedId = id))

DispatchBulkPinNotes ==
  \E ids \in BulkIdSets, isPinned \in BOOLEAN :
    Dispatch([type |-> "BULK_PIN_NOTES", ids |-> ids, isPinned |-> isPinned],
             Last("BULK_PIN_NOTES", NULL, ids, isPinned))

DispatchBulkDeleteNotes ==
  \E ids \in BulkIdSets :
    Dispatch([type |-> "BULK_DELETE_NOTES", ids |-> ids],
             Last("BULK_DELETE_NOTES", NULL, ids, FALSE))

InitReducer ==
  /\ state = initialNotesState
  /\ last = NoAction
  /\ ops = << >>
  /\ ret = NoRet
  /\ editor = initialEditor
  /\ timers = {}
  /\ hist = initialHist
  /\ env = ApiEnv
  /\ storage = NoStorage

NextReducer ==
  \/ DispatchLoadSuccess
  \/ DispatchSelectNote
  \/ DispatchCreateNote
  \/ DispatchUpdateNote
  \/ DispatchTogglePinNote
  \/ DispatchDeleteNote

SpecReducer == InitReducer /\ [][NextReducer]_vars

NextBulk ==
  \/ DispatchLoadSuccess
  \/ DispatchSelectNote
  \/ DispatchBulkPinNotes
  \/ DispatchBulkDeleteNotes

SpecBulk == InitReducer /\ [][NextBulk]_vars

\* ------------------------------------------------------ reducer claims
IsSorted(notes) ==
  \A i, j \in 1..Len(notes) :
    i < j =>
      /\ getIsPinned(notes[j]) => getIsPinned(notes[i])
      /\ getIsPinned(notes[i]) = getIsPinned(notes[j])
           => getUpdatedAt(notes[i]) >= getUpdatedAt(notes[j])

\* C1: in every state reached by reducer actions from a sorted state, every
\* pinned note precedes every unpinned note and updatedAt is non-increasing
\* within each pin group.
C1_NotesSorted == IsSorted(state.notes)

C1_Witness ==
  /\ last.type \in {"CREATE_NOTE", "UPDATE_NOTE", "TOGGLE_PIN_NOTE"}
  /\ Len(state.notes) = 3
  /\ getIsPinned(state.notes[1]) /\ ~getIsPinned(state.notes[3])
  /\ \E i \in 1..2 : /\ getIsPinned(state.notes[i]) = getIsPinned(state.notes[i + 1])
                     /\ getUpdatedAt(state.notes[i]) > getUpdatedAt(state.notes[i + 1])

\* C8: UPDATE_NOTE with an id that is not in the collection leaves every
\* field of the state as it was.
C8_UpdateUnknownIdIsNoOp ==
  [][(last'.type = "UPDATE_NOTE" /\ last'.id \notin NoteIds(state.notes))
       => state' = state]_vars

C8_Witness ==
  /\ last.type = "UPDATE_NOTE"
  /\ last.id \notin NoteIds(state.notes)
  /\ Len(state.notes) >= 2

\* The notes other than the one with the id, in their order.
RECURSIVE Without(_, _)
Without(notes, id) ==
  IF notes = << >> THEN << >>
  ELSE IF Head(notes).id = id THEN Without(Tail(notes), id)
  ELSE << Head(notes) >> \o Without(Tail(notes), id)

\* C9: DELETE_NOTE(id) removes the note with the id and keeps the order of the
\* others; a deleted selection moves to the first remaining note or to null,
\* any other selection stays.
C9_DeleteNote ==
  [][last'.type = "DELETE_NOTE" =>
       /\ state'.notes = Without(state.notes, last'.id)
       /\ state'.selectedId =
            IF state.selectedId = last'.id
            THEN (IF Len(state'.notes) > 0 THEN state'.notes[1].id ELSE NULL)
            ELSE state.selectedId]_vars

C9_Witness ==
  /\ last.type = "DELETE_NOTE"
  /\ last.flag
  /\ Len(state.notes) >= 2
  /\ state.selectedId = state.notes[1].id

\* C10: after LOAD_SUCCESS the selection is the provided id, else the previous
\* selection if it is in the loaded set, else the first note of the resulting
\* sequence, else null; status is idle and error is null.
C10_LoadSuccessSelection ==
  [][last'.type = "LOAD_SUCCESS" =>
       /\ state'.selectedId =
            IF last'.id # NULL THEN last'.id
            ELSE IF state.selectedId # NULL /\ state.selectedId \in NoteIds(state'.notes)
                 THEN state.selectedId
            ELSE FirstIdOrNull(state'.notes)
       /\ state'.status = "idle"
       /\ state'.error = NULL]_vars

RECURSIVE FoldDelete(_, _)
FoldDelete(st, ids) ==
  IF ids = {} THEN st
  ELSE LET id == CHOOSE x \in ids : TRUE IN
       FoldDelete(DELETE_NOTE(st, [type |-> "DELETE_NOTE", id |-> id]), ids \ {id})

PinAll(notes, ids, isPinned) ==
  [i \in 1..Len(notes) |->
     IF notes[i].id \in ids THEN [notes[i] EXCEPT !.isPinned = isPinned] ELSE notes[i]]

\* C6: BULK_DELETE_NOTES(ids) yields the state of DELETE_NOTE applied for every
\* id of ids, and BULK_PIN_NOTES(ids, isPinned) the sorted notes with isPinned
\* set on every note whose id is in ids.
C6_BulkIsFoldOfSingles ==
  [][/\ last'.type = "BULK_DELETE_NOTES" => state' = FoldDelete(state, last'.ids)
     /\ last'.type = "BULK_PIN_NOTES" =>
          state' = [state EXCEPT !.notes =
                      sortNotesPinnedThenUpdatedDesc(
                        PinAll(state.notes, last'.ids, last'.flag))]]_vars

\* --------------------------------------------------------- orchestrator
\* An intent runs up to its await in one step; the service call settles in a
\* later step, the calls of different intents in any order.  The service is the
\* API service: a call resolves with normalizeNote of the note the backend
\* answers with, or rejects with a message.  A backend that stores what it is
\* sent answers an update with the note as the orchestrator has just put it in
\* its state, changed by the payload (op.raw); Answers gives the other answers.
MaxInFlight == 2

Nows == 1..MaxStamp

OrchIds == {"a", "b"}

\* The messages of toFriendlyError, without the request method they start with.
FailureMessages ==
  {"failed. Network error (check API URL / CORS).", "failed. Endpoint not found (404)."}

DeleteResponses == {[ok |-> TRUE]}

\* rec without its field f
Drop(rec, f) == [g \in DOMAIN rec \ {f} |-> rec[g]]

\* The objects a backend may answer a create or an update with: the note it
\* was sent (op.raw), that note without an updatedAt, and that note under an
\* id of the backend's own.
Answers(op) == {op.raw, Drop(op.raw, "updatedAt"), Merge(op.raw, [id |-> "s"])}

\* createdAt, which nothing reads, is left out.
makeNewNote(id, now) ==
  [id |-> id, title |-> "Untitled note", content |-> "", isPinned |-> FALSE,
   color |-> "blue", updatedAt |-> now]

\* A JSON value that is no string where a string is expected: a number.
Number == "#number"

\* typeof v === "string"
IsString(v) == v \notin {NULL, Number}

\* raw[f], NULL standing for undefined as for null
Field(raw, f) == IF f \in DOMAIN raw THEN raw[f] ELSE NULL

\* A normalizeNote that takes the id of the response alone.
normalizeNote_noFallback(raw, fallbackId) ==
  [id |-> Field(raw, "id"),
   title |-> IF IsString(Field(raw, "title")) THEN raw.title ELSE "Untitled note",
   content |-> IF IsString(Field(raw, "content")) THEN raw.content ELSE "",
   updatedAt |-> IF "updatedAt" \in DOMAIN raw THEN raw.updatedAt ELSE 0]

\* The note normalizeNote returns for the fields of a JSON object; createdAt,
\* which nothing reads, is left out.
normalizeNote(raw, fallbackId) ==
  [id |-> Nullish(Field(raw, "id"), fallbackId),
   title |-> IF IsString(Field(raw, "title")) THEN raw.title ELSE "Untitled note",
   content |-> IF IsString(Field(raw, "content")) THEN raw.content ELSE "",
   updatedAt |-> IF "updatedAt" \in DOMAIN raw THEN raw.updatedAt ELSE 0]

\* state.notes.find((n) => n.id === id), [id] alone when there is none.
find(notes, id) ==
  LET idx == findIndex(notes, id) IN IF idx = 0 THEN [id |-> id] ELSE notes[idx]

Range(seq) == {seq[i] : i \in 1..Len(seq)}

Remove(seq, i) == SubSeq(seq, 1, i - 1) \o SubSeq(seq, i + 1, Len(seq))

Op(kind, id, payload, raw) ==
  [kind |-> kind, id |-> id, payload |-> payload, raw |-> raw,
   source |-> "explicit", by |-> "caller", handle |-> 0,
   waiting |-> {id}, rejected |-> FALSE, failed |-> 0, errors |-> 0]

\* A dispatch re-renders the editor: its passive effects are due.
Rendered(e) == [e EXCEPT !.passive = TRUE]

ServerLists ==
  {<< >>,
   << normalizeNote([id |-> "a", title |-> "T1", content |-> "C1", updatedAt |-> 1], "a"),
      normalizeNote([id |-> "b", title |-> "T1", content |-> "C1", updatedAt |-> 1], "b") >>}

\* The provider after its mount effect: loadNotes has dispatched LOAD_START and
\* awaits listNotes.
InitApp ==
  /\ state = notesReducer(initialNotesState, [type |-> "LOAD_START"])
  /\ last = Last("LOAD_START", NULL, {}, FALSE)
  /\ ops = << Op("loadNotes", NULL, [id |-> NULL], [id |-> NULL]) >>
  /\ ret = Ret("loadNotes", "issued", "pending")
  /\ editor = initialEditor
  /\ timers = {}
  /\ hist = initialHist
  /\ env = ApiEnv
  /\ storage = NoStorage

loadNotesResolved ==
  \E i \in 1..Len(ops), notes \in ServerLists :
    /\ ops[i].kind = "loadNotes"
    /\ state' = notesReducer(state, [type |-> "LOAD_SUCCESS", notes |-> notes,
                                     selectedId |-> NULL])
    /\ last' = Last("LOAD_SUCCESS", NULL, {FirstIdOrNull(notes)}, FALSE)
    /\ ops' = Remove(ops, i)
    /\ ret' = Ret("loadNotes", "resolved", "pending")
    /\ editor' = Rendered(editor)
    /\ UNCHANGED << timers, hist, env, storage >>

loadNotesRejected ==
  \E i \in 1..Len(ops), message \in FailureMessages :
    /\ ops[i].kind = "loadNotes"
    /\ state' = notesReducer(state, [type |-> "LOAD_ERROR", error |-> message])
    /\ last' = Last("LOAD_ERROR", NULL, {}, FALSE)
    /\ ops' = Remove(ops, i)
    /\ ret' = [Ret("loadNotes", "rejected", "pending") EXCEPT !.error = message]
    /\ editor' = Rendered(editor)
    /\ UNCHANGED << timers, hist, env, storage >>

\* The catch block of an intent with one service call: SAVE_ERROR with the
\* message, and the failure value returned.
Catch(i, value, message) ==
  /\ state' = notesReducer(state, [type |-> "SAVE_ERROR", error |-> message])
  /\ last' = Last("SAVE_ERROR", ops[i].id, {}, FALSE)
  /\ ops' = Remove(ops, i)
  /\ ret' = [Ret(ops[i].kind, "rejected", value) EXCEPT !.id = ops[i].id,
                                                        !.error = message]
  /\ editor' = Rendered(editor)
  /\ UNCHANGED << timers, hist, env, storage >>

createNote ==
  \E id \in OrchIds, now \in Nows :
    LET note == makeNewNote(id, now)
        s1 == notesReducer(state, [type |-> "CREATE_NOTE", note |-> note])
        s2 == notesReducer(s1, [type |-> "SAVE_START"])
    IN /\ Len(ops) < MaxInFlight
       /\ id \notin NoteIds(state.notes)
       /\ \A j \in 1..Len(ops) : ops[j].id # id
       /\ state' = s2
       /\ last' = Last("SAVE_START", NULL, {}, FALSE)
       /\ ops' = Append(ops, Op("createNote", id, note, note))
       /\ ret' = [Ret("createNote", "issued", "pending") EXCEPT !.id = id]
       /\ editor' = Rendered(editor)
       /\ UNCHANGED << timers, hist, env, storage >>

\* A createNote that reconciles whatever id the answer has.
createNoteResolved_noIdCheck ==
  \E i \in 1..Len(ops) : \E raw \in Answers(ops[i]) :
    LET op == ops[i]
        created == normalizeNote(raw, op.id)
        s1 == notesReducer(state, [type |-> "UPDATE_NOTE", id |-> op.id,
                                   patch |-> created])
    IN /\ op.kind = "createNote"
       /\ state' = notesReducer(s1, [type |-> "SAVE_END"])
       /\ last' = Last("SAVE_END", NULL, {}, FALSE)
       /\ ops' = Remove(ops, i)
       /\ ret' = [Ret("createNote", "resolved", "note") EXCEPT !.id = created.id]
       /\ editor' = Rendered(editor)
       /\ UNCHANGED << timers, hist, env, storage >>

createNoteResolved ==
  \E i \in 1..Len(ops) : \E raw \in Answers(ops[i]) :
    LET op == ops[i]
        created == normalizeNote(raw, op.id)
        s1 == IF created.id = op.id
              THEN notesReducer(state, [type |-> "UPDATE_NOTE", id |-> op.id,
                                        patch |-> created])
              ELSE state
    IN /\ op.kind = "createNote"
       /\ state' = notesReducer(s1, [type |-> "SAVE_END"])
       /\ last' = Last("SAVE_END", NULL, {}, FALSE)
       /\ ops' = Remove(ops, i)
       /\ ret' = [Ret("createNote", "resolved", "note") EXCEPT !.id = created.id]
       /\ editor' = Rendered(editor)
       /\ UNCHANGED << timers, hist, env, storage >>

\* A catch block that takes the optimistic note out again.
createNoteRejected_rollback ==
  \E i \in 1..Len(ops), message \in FailureMessages :
    /\ ops[i].kind = "createNote"
    /\ state' = notesReducer(notesReducer(state, [type |-> "DELETE_NOTE", id |-> ops[i].id]),
                             [type |-> "SAVE_ERROR", error |-> message])
    /\ last' = Last("SAVE_ERROR", ops[i].id, {}, FALSE)
    /\ ops' = Remove(ops, i)
    /\ ret' = [Ret("createNote", "rejected", "null") EXCEPT !.id = ops[i].id,
                                                            !.error = message]
    /\ editor' = Rendered(editor)
    /\ UNCHANGED << timers, hist, env, storage >>

createNoteRejected ==
  \E i \in 1..Len(ops), message \in FailureMessages :
    /\ ops[i].kind = "createNote"
    /\ Catch(i, "null", message)

\* A saveNote that stamps the payload for the service alone: the state gets the
\* patch without the updatedAt.
saveNote_stampAfter(id, patch, source, by, handle) ==
  \E now \in Nows :
    LET payload == Merge(patch, [updatedAt |-> now])
        s1 == notesReducer(state, [type |-> "UPDATE_NOTE", id |-> id, patch |-> patch])
        s2 == notesReducer(s1, [type |-> "SAVE_START"])
    IN /\ Len(ops) < MaxInFlight
       /\ state' = s2
       /\ last' = Last("UPDATE_NOTE", id, {}, FALSE)
       /\ ops' = Append(ops, [Op("saveNote", id, payload,
                                 Merge(find(s2.notes, id), payload))
                                EXCEPT !.source = source, !.by = by, !.handle = handle])

\* saveNote up to its await.  The caller sets ret, timers and hist.
saveNote(id, patch, source, by, handle) ==
  \E now \in Nows :
    LET payload == Merge(patch, [updatedAt |-> now])
        s1 == notesReducer(state, [type |-> "UPDATE_NOTE", id |-> id, patch |-> patch])
        s2 == notesReducer(s1, [type |-> "SAVE_START"])
        s3 == notesReducer(s2, [type |-> "UPDATE_NOTE", id |-> id, patch |-> payload])
    IN /\ Len(ops) < MaxInFlight
       /\ state' = s3
       /\ last' = Last("UPDATE_NOTE", id, {}, FALSE)
       /\ ops' = Append(ops, [Op("saveNote", id, payload,
                                 Merge(find(s3.notes, id), payload))
                                EXCEPT !.source = source, !.by = by, !.handle = handle])

\* A saveNote that puts the answered note back when the collection has lost it.
saveNoteResolved_restore ==
  \E i \in 1..Len(ops) : \E raw \in Answers(ops[i]) :
    LET op == ops[i]
        updated == normalizeNote(raw, op.id)
        s1 == IF updated.id # op.id THEN state
              ELSE IF findIndex(state.notes, op.id) = 0
              THEN notesReducer(state, [type |-> "CREATE_NOTE", note |-> updated])
              ELSE notesReducer(state, [type |-> "UPDATE_NOTE", id |-> op.id,
                                        patch |-> updated])
    IN /\ op.kind = "saveNote"
       /\ state' = notesReducer(s1, [type |-> "SAVE_END"])
       /\ last' = Last("SAVE_END", NULL, {}, FALSE)
       /\ ops' = Remove(ops, i)
       /\ ret' = [Ret("saveNote", "resolved", "true") EXCEPT !.id = op.id,
                                                            !.handle = op.handle]
       /\ editor' = IF op.by = "onSaveNow"
                    THEN [Rendered(editor) EXCEPT !.dirty = FALSE]
                    ELSE Rendered(editor)
       /\ UNCHANGED << timers, hist, env, storage >>

saveNoteResolved ==
  \E i \in 1..Len(ops) : \E raw \in Answers(ops[i]) :
    LET op == ops[i]
        updated == normalizeNote(raw, op.id)
        s1 == IF updated.id = op.id
              THEN notesReducer(state, [type |-> "UPDATE_NOTE", id |-> op.id,
                                        patch |-> updated])
              ELSE state
    IN /\ op.kind = "saveNote"
       /\ state' = notesReducer(s1, [type |-> "SAVE_END"])
       /\ last' = Last("SAVE_END", NULL, {}, FALSE)
       /\ ops' = Remove(ops, i)
       /\ ret' = [Ret("saveNote", "resolved", "true") EXCEPT !.id = op.id,
                                                            !.handle = op.handle]
       /\ editor' = IF op.by = "onSaveNow"
                    THEN [Rendered(editor) EXCEPT !.dirty = FALSE]
                    ELSE Rendered(editor)
       /\ UNCHANGED << timers, hist, env, storage >>

saveNoteRejected ==
  \E i \in 1..Len(ops), message \in FailureMessages :
    /\ ops[i].kind = "saveNote"
    /\ Catch(i, "false", message)

\* selected of AppLayout and of NoteEditor; every field null when there is none.
selected(st) ==
  LET idx == findIndex(st.notes, st.selectedId) IN
  IF idx = 0 THEN [id |-> NULL, title |-> NULL, content |-> NULL] ELSE st.notes[idx]

\* Ctrl+S: saves the store's snapshot of the selected note.
onSave ==
  LET sel == selected(state) IN
  /\ sel.id # NULL
  /\ saveNote(sel.id, [title |-> sel.title, content |-> sel.content],
              "explicit", "onSave", 0)
  /\ ret' = Merge([Ret("saveNote", "issued", "pending") EXCEPT !.id = sel.id],
                  [before |-> getUpdatedAt(sel)])
  /\ editor' = Rendered(editor)
  /\ UNCHANGED << timers, hist, env, storage >>

deleteNote ==
  \E id \in OrchIds :
    /\ Len(ops) < MaxInFlight
    /\ state' = notesReducer(notesReducer(state, [type |-> "DELETE_NOTE", id |-> id]),
                             [type |-> "SAVE_START"])
    /\ last' = Last("SAVE_START", NULL, {}, FALSE)
    /\ ops' = Append(ops, Op("deleteNote", id, [id |-> id], [id |-> id]))
    /\ ret' = [Ret("deleteNote", "issued", "pending") EXCEPT !.id = id]
    /\ editor' = Rendered(editor)
    /\ UNCHANGED << timers, hist, env, storage >>

deleteNoteResolved ==
  \E i \in 1..Len(ops), res \in DeleteResponses :
    /\ ops[i].kind = "deleteNote"
    /\ IF res.ok # TRUE
       THEN Catch(i, "false", "Delete did not complete successfully.")
       ELSE /\ state' = notesReducer(state, [type |-> "SAVE_END"])
            /\ last' = Last("SAVE_END", NULL, {}, FALSE)
            /\ ops' = Remove(ops, i)
            /\ ret' = [Ret("deleteNote", "resolved", "true") EXCEPT !.id = ops[i].id]
            /\ editor' = Rendered(editor)
            /\ UNCHANGED << timers, hist, env, storage >>

deleteNoteRejected ==
  \E i \in 1..Len(ops), message \in FailureMessages :
    /\ ops[i].kind = "deleteNote"
    /\ Catch(i, "false", message)

togglePinNote ==
  \E id \in OrchIds, now \in Nows :
    LET note == find(state.notes, id)
        s1 == notesReducer(state, [type |-> "TOGGLE_PIN_NOTE", id |-> id])
        payload == [isPinned |-> ~getIsPinned(note), updatedAt |-> now]
    IN IF findIndex(state.notes, id) = 0
       THEN /\ ret' = [Ret("togglePinNote", "returned", "false") EXCEPT !.id = id]
            /\ UNCHANGED << state, last, ops, editor, timers, hist, env, storage >>
       ELSE /\ Len(ops) < MaxInFlight
            /\ state' = notesReducer(s1, [type |-> "SAVE_START"])
            /\ last' = Last("SAVE_START", NULL, {}, FALSE)
            /\ ops' = Append(ops, Op("togglePinNote", id, payload,
                                     Merge(find(s1.notes, id), payload)))
            /\ ret' = Merge([Ret("togglePinNote", "issued", "pending") EXCEPT !.id = id],
                            [before |-> getUpdatedAt(note)])
            /\ editor' = Rendered(editor)
            /\ UNCHANGED << timers, hist, env, storage >>

togglePinNoteResolved ==
  \E i \in 1..Len(ops) : \E raw \in Answers(ops[i]) :
    LET op == ops[i]
        updated == normalizeNote(raw, op.id)
        s1 == IF updated.id = op.id
              THEN notesReducer(state, [type |-> "UPDATE_NOTE", id |-> op.id,
                                        patch |-> updated])
              ELSE state
    IN /\ op.kind = "togglePinNote"
       /\ state' = notesReducer(s1, [type |-> "SAVE_END"])
       /\ last' = Last("SAVE_END", NULL, {}, FALSE)
       /\ ops' = Remove(ops, i)
       /\ ret' = [Ret("togglePinNote", "resolved", "true") EXCEPT !.id = op.id]
       /\ editor' = Rendered(editor)
       /\ UNCHANGED << timers, hist, env, storage >>

togglePinNoteRejected ==
  \E i \in 1..Len(ops), message \in FailureMessages :
    /\ ops[i].kind = "togglePinNote"
    /\ Catch(i, "false", message)

\* Array.from(new Set(...)): the elements in the order of their first occurrence.
RECURSIVE Dedupe(_, _)
Dedupe(seen, rest) ==
  IF rest = << >> THEN seen
  ELSE Dedupe(IF Head(rest) \in Range(seen) THEN seen ELSE Append(seen, Head(rest)),
              Tail(rest))

\* An id list that keeps its duplicates.
safeIds_keepDuplicates(ids) == SelectSeq(ids, LAMBDA x : x # NULL /\ x # "")

safeIds(ids) == Dedupe(<< >>, SelectSeq(ids, LAMBDA x : x # NULL /\ x # ""))

BulkInputs == {<< >>, << "a" >>, << "a", "a" >>, << "a", "b" >>, << "b", "a", "b" >>}

BulkIntents == {"bulkPinNotes", "bulkDeleteNotes"}

\* A bulk intent up to its await of Promise.all: one call per element of safe.
bulkIssue(kind, action, ids, safe, payload) ==
  IF Len(safe) = 0
  THEN /\ ret' = [Ret(kind, "returned", "false") EXCEPT !.input = ids]
       /\ UNCHANGED << state, last, ops, editor, timers, hist, env, storage >>
  ELSE /\ Len(ops) < MaxInFlight
       /\ state' = notesReducer(notesReducer(state, action), [type |-> "SAVE_START"])
       /\ last' = Last("SAVE_START", NULL, {}, FALSE)
       /\ ops' = Append(ops, [Op(kind, NULL, payload, payload)
                                EXCEPT !.waiting = Range(safe)])
       /\ ret' = [Ret(kind, "issued", "pending") EXCEPT !.input = ids, !.calls = safe,
                                                        !.left = Len(safe)]
       /\ editor' = Rendered(editor)
       /\ UNCHANGED << timers, hist, env, storage >>

bulkPinNotes ==
  \E ids \in BulkInputs, isPinned \in BOOLEAN, now \in Nows :
    bulkIssue("bulkPinNotes",
              [type |-> "BULK_PIN_NOTES", ids |-> safeIds(ids), isPinned |-> isPinned],
              ids, safeIds(ids), [isPinned |-> isPinned, updatedAt |-> now])

bulkDeleteNotes ==
  \E ids \in BulkInputs :
    bulkIssue("bulkDeleteNotes", [type |-> "BULK_DELETE_NOTES", ids |-> safeIds(ids)],
              ids, safeIds(ids), [id |-> NULL])

\* One call of a bulk intent resolves.  Promise.all resolves with the last of
\* them unless it has rejected before: SAVE_END, and true is returned.
bulkCallResolved(kind) ==
  \E i \in 1..Len(ops) : \E id \in ops[i].waiting :
    LET op == ops[i]
        left == op.waiting \ {id}
        all == left = {} /\ ~op.rejected
    IN /\ op.kind = kind
       /\ state' = IF all THEN notesReducer(state, [type |-> "SAVE_END"]) ELSE state
       /\ last' = IF all THEN Last("SAVE_END", NULL, {}, FALSE) ELSE last
       /\ ops' = IF left = {} THEN Remove(ops, i)
                 ELSE [ops EXCEPT ![i] = [op EXCEPT !.waiting = left]]
       /\ ret' = [Ret(kind, "settled",
                      IF all THEN "true" ELSE IF op.rejected THEN "false" ELSE "pending")
                    EXCEPT !.failed = op.failed, !.errors = op.errors,
                           !.left = Cardinality(left)]
       /\ editor' = IF all THEN Rendered(editor) ELSE editor
       /\ UNCHANGED << timers, hist, env, storage >>

\* One call of a bulk intent rejects.  Promise.all rejects with the first of
\* them: the catch block runs once; a later rejection goes unobserved.
bulkCallRejected(kind) ==
  \E i \in 1..Len(ops), message \in FailureMessages : \E id \in ops[i].waiting :
    LET op == ops[i]
        left == op.waiting \ {id}
        first == ~op.rejected
        op2 == [op EXCEPT !.waiting = left, !.rejected = TRUE, !.failed = @ + 1,
                          !.errors = IF first THEN @ + 1 ELSE @]
    IN /\ op.kind = kind
       /\ state' = IF first
                   THEN notesReducer(state, [type |-> "SAVE_ERROR", error |-> message])
                   ELSE state
       /\ last' = IF first THEN Last("SAVE_ERROR", NULL, {}, FALSE) ELSE last
       /\ ops' = IF left = {} THEN Remove(ops, i) ELSE [ops EXCEPT ![i] = op2]
       /\ ret' = [Ret(kind, "settled", "false")
                    EXCEPT !.failed = op2.failed, !.errors = op2.errors,
                           !.left = Cardinality(left),
                           !.error = IF first THEN message ELSE NULL]
       /\ editor' = IF first THEN Rendered(editor) ELSE editor
       /\ UNCHANGED << timers, hist, env, storage >>

bulkPinNotesResolved == bulkCallResolved("bulkPinNotes")

bulkPinNotesRejected == bulkCallRejected("bulkPinNotes")

bulkDeleteNotesResolved == bulkCallResolved("bulkDeleteNotes")

bulkDeleteNotesRejected == bulkCallRejected("bulkDeleteNotes")

NextOrch ==
  \/ loadNotesResolved
  \/ loadNotesRejected
  \/ createNote
  \/ createNoteResolved
  \/ createNoteRejected
  \/ onSave
  \/ saveNoteResolved
  \/ saveNoteRejected
  \/ deleteNote
  \/ deleteNoteResolved
  \/ deleteNoteRejected
  \/ togglePinNote
  \/ togglePinNoteResolved
  \/ togglePinNoteRejected

SpecOrch == InitApp /\ [][NextOrch]_vars

NextBulkOrch ==
  \/ loadNotesResolved
  \/ loadNotesRejected
  \/ bulkPinNotes
  \/ bulkPinNotesResolved
  \/ bulkPinNotesRejected
  \/ bulkDeleteNotes
  \/ bulkDeleteNotesResolved
  \/ bulkDeleteNotesRejected

SpecBulkOrch == InitApp /\ [][NextBulkOrch]_vars

\* ------------------------------------------------- orchestrator claims
\* C5: when the service call of createNote, saveNote, deleteNote or
\* togglePinNote fails, SAVE_ERROR is dispatched with the failure's message and
\* status becomes error, the caller gets false (null from createNote), and
\* notes and selectedId stay as they were before the failure was handled.
C5_FailureKeepsOptimisticState ==
  [][(ret'.phase = "rejected"
      /\ ret'.intent \in {"createNote", "saveNote", "deleteNote", "togglePinNote"})
       => /\ last'.type = "SAVE_ERROR"
          /\ state'.status = "error"
          /\ state'.error = ret'.error
          /\ ret'.value = IF ret'.intent = "createNote" THEN "null" ELSE "false"
          /\ state'.notes = state.notes
          /\ state'.selectedId = state.selectedId]_vars

C5_Witness ==
  /\ ret.phase = "rejected"
  /\ ret.intent = "createNote"
  /\ ret.id \in NoteIds(state.notes)
  /\ state.selectedId = ret.id
  /\ state.status = "error"

\* C7: the bulk intents call the service once per distinct id of their list;
\* true is returned, after SAVE_END, only when every call has succeeded; a
\* failed call gives exactly one SAVE_ERROR and false; an empty list gives false
\* with no dispatch and no call.
C7_BulkIntents ==
  [][ret'.intent \in BulkIntents =>
       /\ ret'.phase = "issued" =>
            /\ ret'.input # << >>
            /\ Len(ret'.calls) = Cardinality(Range(ret'.input))
            /\ Range(ret'.calls) = Range(ret'.input)
            /\ ops'[Len(ops')].waiting = Range(ret'.input)
       /\ ret'.value = "true" =>
            /\ ret'.failed = 0 /\ ret'.left = 0
            /\ last'.type = "SAVE_END" /\ state'.status = "idle"
       /\ (ret'.phase = "settled" /\ ret'.failed > 0) =>
            /\ ret'.errors = 1 /\ ret'.value = "false"
       /\ (ret'.phase = "settled" /\ ret'.failed = 0) =>
            /\ ret'.errors = 0
            /\ ret'.value = IF ret'.left = 0 THEN "true" ELSE "pending"
       /\ ret'.phase = "returned" =>
            /\ ret'.input = << >>
            /\ ret'.value = "false"
            /\ state' = state /\ last' = last /\ ops' = ops]_vars

C7_Witness ==
  /\ ret.intent \in BulkIntents
  /\ ret.phase = "settled"
  /\ ret.failed = 2
  /\ ret.errors = 1
  /\ ret.left = 0
  /\ state.status = "error"

\* --------------------------------------------------------------- editor
\* A handler of the editor and the render of the state it sets are one step.
\* React runs the passive effects of a render after the commit, at a time of
\* its choosing: they are a step of their own (PassiveEffects), and a timeout
\* or a handler may run before it.  There is no clock: a pending timeout may
\* run at any step, and edits less than the quiet period apart are edits with
\* no timeout run between them.
MaxTimers == 2

MaxEpoch == 3

\* v || ""
OrEmpty(v) == IF v = NULL THEN "" ELSE v

\* A cancel that forgets clearTimeout.
cancel_keepsTimeout(tms, handle) == tms

\* cancel of useDebouncedCallback on the timeouts; the caller nulls timer.current.
cancel(tms, handle) == {t \in tms : t.handle # handle}

\* The two effects of NoteEditor after a render: the cleanup of the teardown
\* effect, whose dependency debouncedAutosave is a new function in every
\* render, and the epoch effect when one of its dependencies has changed.
PassiveEffects ==
  LET sel == selected(state)
      deps == << sel.id, sel.title, sel.content, editor.dirty >>
      run == deps # editor.deps
      title == IF sel.id = NULL THEN ""
               ELSE IF \/ ~editor.dirty
                       \/ editor.draftTitle = ""
                       \/ editor.draftTitle = OrEmpty(sel.title)
                    THEN OrEmpty(sel.title)
               ELSE editor.draftTitle
      content == IF sel.id = NULL THEN ""
                 ELSE IF \/ ~editor.dirty
                         \/ editor.draftContent = ""
                         \/ editor.draftContent = OrEmpty(sel.content)
                      THEN OrEmpty(sel.content)
                 ELSE editor.draftContent
      dirty == IF ~editor.dirty \/ sel.id = NULL THEN FALSE ELSE editor.dirty
  IN /\ editor.passive
     /\ timers' = cancel(timers, editor.timer)
     /\ editor' =
          IF run
          THEN [editor EXCEPT !.autosaveEpochRef = @ + 1,
                              !.draftTitle = title, !.draftContent = content,
                              !.dirty = dirty, !.deps = deps, !.timer = 0,
                              !.passive = \/ title # editor.draftTitle
                                          \/ content # editor.draftContent
                                          \/ dirty # editor.dirty]
          ELSE [editor EXCEPT !.timer = 0, !.passive = FALSE]
     /\ hist' = [hist EXCEPT !.coalesced = 0]
     /\ ret' = Ret("PassiveEffects", IF run THEN "ran" ELSE "cleanup", "pending")
     /\ UNCHANGED << state, last, ops, env, storage >>

\* An edit of one of the two inputs: the drafts after it, and debounced(...).
onChange(handler, draftTitle, draftContent) ==
  LET sel == selected(state)
      h == hist.nextHandle
      patch == [title |-> draftTitle, content |-> draftContent]
  IN /\ sel.id # NULL
     /\ h <= MaxTimers
     /\ timers' = cancel(timers, editor.timer)
                    \cup {[handle |-> h, id |-> sel.id, patch |-> patch,
                           epoch |-> editor.autosaveEpochRef]}
     /\ editor' = [Rendered(editor) EXCEPT !.draftTitle = draftTitle,
                                           !.draftContent = draftContent,
                                           !.dirty = TRUE, !.timer = h]
     /\ hist' = [hist EXCEPT !.nextHandle = h + 1, !.lastEdit = patch,
                             !.coalesced = IF timers = {} THEN 1 ELSE @ + 1]
     /\ ret' = [Ret(handler, "scheduled", "pending") EXCEPT !.id = sel.id, !.handle = h]
     /\ UNCHANGED << state, last, ops, env, storage >>

onChangeTitle ==
  \E v \in Titles :
    /\ v # editor.draftTitle
    /\ onChange("onChangeTitle", v, editor.draftContent)

onChangeContent ==
  \E v \in Contents :
    /\ v # editor.draftContent
    /\ onChange("onChangeContent", v, editor.draftTitle)

\* A pending timeout runs the callback given to useDebouncedCallback.
debouncedAutosave ==
  \E t \in timers :
    /\ timers' = timers \ {t}
    /\ IF t.epoch # editor.autosaveEpochRef
       THEN /\ ret' = [Ret("debouncedAutosave", "dropped", "pending")
                         EXCEPT !.id = t.id, !.handle = t.handle]
            /\ UNCHANGED << state, last, ops, editor, hist, env, storage >>
       ELSE /\ saveNote(t.id, t.patch, "autosave", "debouncedAutosave", t.handle)
            /\ ret' = [Ret("debouncedAutosave", "issued", "pending")
                         EXCEPT !.id = t.id, !.handle = t.handle]
            /\ editor' = Rendered(editor)
            /\ hist' = [hist EXCEPT !.raced = NoRace]
            /\ UNCHANGED << env, storage >>

\* The autosaves of the note that are in flight.
AutosavesInFlight(id) ==
  {i \in 1..Len(ops) : ops[i].kind = "saveNote" /\ ops[i].source = "autosave"
                        /\ ops[i].id = id}

\* A Save handler that neither cancels the pending autosave nor moves the epoch.
onSaveNow_noCancel ==
  LET sel == selected(state) IN
  /\ sel.id # NULL /\ editor.dirty /\ state.status # "saving"
  /\ editor.autosaveEpochRef < MaxEpoch
  /\ timers' = timers
  /\ saveNote(sel.id, [title |-> editor.draftTitle, content |-> editor.draftContent],
              "explicit", "onSaveNow", 0)
  /\ editor' = Rendered(editor)
  /\ hist' = [hist EXCEPT !.superseded = @ \cup {t.handle : t \in timers},
                          !.raced = NoRace]
  /\ ret' = [Ret("onSaveNow", "issued", "pending") EXCEPT !.id = sel.id]
  /\ UNCHANGED << env, storage >>

\* The Save button, enabled when canSave.
onSaveNow ==
  LET sel == selected(state) IN
  /\ sel.id # NULL /\ editor.dirty /\ state.status # "saving"
  /\ editor.autosaveEpochRef < MaxEpoch
  /\ timers' = cancel(timers, editor.timer)
  /\ saveNote(sel.id, [title |-> editor.draftTitle, content |-> editor.draftContent],
              "explicit", "onSaveNow", 0)
  /\ editor' = [Rendered(editor) EXCEPT !.timer = 0, !.autosaveEpochRef = @ + 1]
  /\ hist' = [hist EXCEPT !.superseded = @ \cup {t.handle : t \in timers},
                          !.coalesced = 0,
                          !.raced = IF AutosavesInFlight(sel.id) # {}
                                    THEN [id |-> sel.id, title |-> editor.draftTitle,
                                          content |-> editor.draftContent]
                                    ELSE NoRace]
  /\ ret' = [Ret("onSaveNow", "issued", "pending") EXCEPT !.id = sel.id]
  /\ UNCHANGED << env, storage >>

NextEditor ==
  \/ loadNotesResolved
  \/ loadNotesRejected
  \/ PassiveEffects
  \/ onChangeTitle
  \/ onChangeContent
  \/ debouncedAutosave
  \/ onSaveNow
  \/ saveNoteResolved
  \/ saveNoteRejected

SpecEditor == InitApp /\ [][NextEditor]_vars

\* ------------------------------------------------------- editor claims
\* C2: an autosave that was scheduled and had not run when the editor's
\* explicit save ran never calls saveNote, and the explicit save calls the
\* service's updateNote once.
C2_ExplicitSaveDropsAutosave ==
  [][/\ (ret'.intent = "debouncedAutosave" /\ ret'.handle \in hist.superseded)
          => (ret'.phase = "dropped" /\ ops' = ops)
     /\ ret'.intent = "onSaveNow"
          => /\ Len(ops') = Len(ops) + 1
             /\ ops'[Len(ops')].kind = "saveNote"
             /\ ops'[Len(ops')].source = "explicit"
             /\ SubSeq(ops', 1, Len(ops)) = ops
             /\ \A t \in timers' : t.handle \notin hist'.superseded]_vars

C2_Witness ==
  /\ ret.intent = "onSaveNow"
  /\ hist.superseded # {}
  /\ timers = {}
  /\ Len(ops) = 1
  /\ ops[1].payload.title = editor.draftTitle

FilterValues == [query : {"", "q"}, color : {"all"}, pinnedOnly : BOOLEAN]

FilterPatches == [query : {"q"}] \cup [color : {"red"}] \cup [pinnedOnly : {TRUE}]

LastFilter(type, value) ==
  [id |-> NULL, value |-> value, type |-> type, ids |-> {}, flag |-> FALSE]

DispatchSetFilter ==
  \E value \in FilterValues :
    /\ state' = notesReducer(state, [type |-> "SET_FILTER", value |-> value])
    /\ last' = LastFilter("SET_FILTER", value)
    /\ hist' = Merge(hist, [criteria |-> TRUE])
    /\ UNCHANGED << ops, ret, editor, timers, env, storage >>

DispatchPatchFilter ==
  \E patch \in FilterPatches :
    Dispatch([type |-> "PATCH_FILTER", patch |-> patch],
             LastFilter("PATCH_FILTER", patch))

NextFilter ==
  \/ DispatchLoadSuccess
  \/ DispatchSetFilter
  \/ DispatchPatchFilter

SpecFilter == InitReducer /\ [][NextFilter]_vars

\* C11: SET_FILTER(value) replaces the filter with value, PATCH_FILTER(patch)
\* puts the fields of patch over those of the current filter criteria, and
\* both leave every other field of the state as it was.
C11_FilterActions ==
  [][/\ last'.type = "SET_FILTER" => state' = [state EXCEPT !.filter = last'.value]
     /\ (last'.type = "PATCH_FILTER" /\ "criteria" \in DOMAIN hist) =>
          state' = [state EXCEPT !.filter = Merge(state.filter, last'.value)]]_vars

\* ------------------------------------------------ the persistence mode
MaxLen == 2

Chars == {" ", "u", "/"}

EnvNames == {"REACT_APP_API_BASE", "REACT_APP_BACKEND_URL"}

RECURSIVE StringsUpTo(_)
StringsUpTo(n) ==
  IF n = 0 THEN {<< >>}
  ELSE LET shorter == StringsUpTo(n - 1)
       IN shorter \cup {Append(s, c) : s \in shorter, c \in Chars}

Envs == UNION {[set -> StringsUpTo(MaxLen)] : set \in SUBSET EnvNames}

\* process.env[name] under || and Boolean: undefined is falsy as "" is.
processEnv(e, name) == IF name \in DOMAIN e THEN e[name] ELSE << >>

\* a || b on strings
Or(a, b) == IF a # << >> THEN a ELSE b

\* String.prototype.trim
RECURSIVE trimStart(_)
trimStart(s) == IF s # << >> /\ Head(s) = " " THEN trimStart(Tail(s)) ELSE s

RECURSIVE trimEnd(_)
trimEnd(s) ==
  IF s # << >> /\ s[Len(s)] = " " THEN trimEnd(SubSeq(s, 1, Len(s) - 1)) ELSE s

trim(s) == trimEnd(trimStart(s))

isApiEnabled(e) ==
  Or(processEnv(e, "REACT_APP_API_BASE"), processEnv(e, "REACT_APP_BACKEND_URL")) # << >>

getNotesService(e) == IF isApiEnabled(e) THEN "api" ELSE "storage"

\* (A || B || "").replace(/\/$/, "")
getBaseUrl(e) ==
  LET v == Or(processEnv(e, "REACT_APP_API_BASE"),
              processEnv(e, "REACT_APP_BACKEND_URL"))
  IN IF v # << >> /\ v[Len(v)] = "/" THEN SubSeq(v, 1, Len(v) - 1) ELSE v

InitConfig ==
  /\ state = initialNotesState
  /\ last = NoAction
  /\ ops = << >>
  /\ ret = NoRet
  /\ editor = initialEditor
  /\ timers = {}
  /\ hist = initialHist
  /\ env \in Envs
  /\ storage = NoStorage

CallIsApiEnabled ==
  /\ ret' = Ret("isApiEnabled", "returned", IF isApiEnabled(env) THEN "true" ELSE "false")
  /\ UNCHANGED << state, last, ops, editor, timers, hist, env, storage >>

CallGetNotesService ==
  /\ ret' = Ret("getNotesService", "returned", getNotesService(env))
  /\ UNCHANGED << state, last, ops, editor, timers, hist, env, storage >>

NextConfig ==
  \/ CallIsApiEnabled
  \/ CallGetNotesService

SpecConfig == InitConfig /\ [][NextConfig]_vars

\* One of the two variables is set to a value that is not empty once trimmed.
Configured(e) == \E name \in DOMAIN e : trim(e[name]) # << >>

\* C12: isApiEnabled returns true, and getNotesService the API service,
\* exactly when REACT_APP_API_BASE or REACT_APP_BACKEND_URL is set to a value
\* that is not empty after trimming; otherwise the mode is local.
C12_RemoteIffConfigured ==
  /\ ret.intent = "isApiEnabled" => (ret.value = "true" <=> Configured(env))
  /\ ret.intent = "getNotesService" => (ret.value = "api" <=> Configured(env))

\* ------------------------------------------------------ the API service
\* A call of the API service and the settling of its promise are one step: the
\* outcome of fetch is an input of the call.  A parsed JSON value is a record
\* of its type and, for an object, its fields, for an array, its items.  A
\* response that has arrived is taken to give its text.
NoFields == [f \in {} |-> NULL]

JsonNull == [type |-> "null"]

JsonNumber == [type |-> "number"]

JsonObject(fields) == [type |-> "object", fields |-> fields]

JsonArray(items) == [type |-> "array", items |-> items]

\* text: "empty", "nonjson" or "json"
Body(text, json) == [text |-> text, json |-> json]

Statuses == {200, 400, 401, 403, 404, 500, 503}

TypeError == [kind |-> "TypeError", status |-> 0, body |-> Body("empty", JsonNull)]

Response(status, body) == [kind |-> "response", status |-> status, body |-> body]

isPlainObject(v) == v.type = "object"

\* A toFriendlyError that takes 403 for any other client error.
toFriendlyError_only401(err, action) ==
  LET baseMsg == action \o " failed" IN
  IF err.type = "TypeError"
  THEN baseMsg \o ". Network error (check API URL / CORS)."
  ELSE IF err.status = 401 THEN baseMsg \o ". Unauthorized."
  ELSE IF err.status = 404 THEN baseMsg \o ". Endpoint not found (404)."
  ELSE IF err.status >= 500
  THEN baseMsg \o ". Server error (" \o ToString(err.status) \o ")."
  ELSE IF err.message # "" THEN err.message ELSE baseMsg

\* err.status of no status is 0.
toFriendlyError(err, action) ==
  LET baseMsg == action \o " failed" IN
  IF err.type = "TypeError"
  THEN baseMsg \o ". Network error (check API URL / CORS)."
  ELSE IF err.status = 401 \/ err.status = 403 THEN baseMsg \o ". Unauthorized."
  ELSE IF err.status = 404 THEN baseMsg \o ". Endpoint not found (404)."
  ELSE IF err.status >= 500
  THEN baseMsg \o ". Server error (" \o ToString(err.status) \o ")."
  ELSE IF err.message # "" THEN err.message ELSE baseMsg

Thrown(message, requests) ==
  [threw |-> TRUE, message |-> message, data |-> JsonNull, requests |-> requests]

Returned(data) == [threw |-> FALSE, message |-> NULL, data |-> data, requests |-> 1]

request(e, method, out) ==
  IF getBaseUrl(e) = << >> THEN Thrown("API base URL not configured", 0)
  ELSE IF out.kind = "TypeError"
  THEN Thrown(toFriendlyError([type |-> "TypeError", message |-> "Failed to fetch",
                               status |-> 0], method), 1)
  ELSE IF out.status < 200 \/ out.status > 299
  THEN Thrown(toFriendlyError(
                [type |-> "Error",
                 message |-> "Request failed (" \o ToString(out.status) \o ")",
                 status |-> out.status], method), 1)
  ELSE IF out.body.text = "empty" THEN Returned(JsonNull)
  ELSE IF out.body.text = "nonjson"
  THEN Thrown(toFriendlyError([type |-> "Error",
                               message |-> "Invalid response (expected JSON).",
                               status |-> 0], method), 1)
  ELSE Returned(out.body.json)

\* What the promise of a service call settles with.
Settled(phase, value, error, requests) ==
  [phase |-> phase, value |-> value, error |-> error, requests |-> requests]

apiDeleteNote(e, id, out) ==
  LET r == request(e, "DELETE", out) IN
  IF r.threw THEN Settled("rejected", [ok |-> FALSE], r.message, r.requests)
  ELSE IF r.data.type = "null" THEN Settled("resolved", [ok |-> TRUE], NULL, r.requests)
  ELSE IF isPlainObject(r.data) /\ "ok" \in DOMAIN r.data.fields /\ r.data.fields.ok
  THEN Settled("resolved", [ok |-> TRUE], NULL, r.requests)
  ELSE Settled("rejected", [ok |-> FALSE],
               "Invalid response for deleteNote (expected { ok: true } or empty body).",
               r.requests)

\* !id
Falsy(id) == id \in {NULL, ""}

\* The message normalizeNote throws with, NULL when it returns.
normalizeNoteError(data, fallbackId) ==
  IF ~isPlainObject(data) THEN "Invalid note response (expected object)."
  ELSE IF Falsy(Nullish(Field(data.fields, "id"), fallbackId))
  THEN "Invalid note response (missing id)."
  ELSE NULL

\* n?.id of an item of the list
ItemId(item) == IF isPlainObject(item) THEN Field(item.fields, "id") ELSE NULL

apiListNotes(e, out) ==
  LET r == request(e, "GET", out) IN
  IF r.threw THEN Settled("rejected", << >>, r.message, r.requests)
  ELSE IF r.data.type # "array"
  THEN Settled("rejected", << >>, "Invalid response for listNotes (expected an array).",
               r.requests)
  ELSE LET items == r.data.items
           bad == {i \in 1..Len(items) : normalizeNoteError(items[i], ItemId(items[i])) # NULL}
       IN IF bad # {}
          THEN LET i == CHOOSE i \in bad : \A j \in bad : i <= j
               IN Settled("rejected", << >>,
                          normalizeNoteError(items[i], ItemId(items[i])), r.requests)
          ELSE Settled("resolved",
                       [i \in 1..Len(items) |->
                          normalizeNote(items[i].fields, ItemId(items[i]))],
                       NULL, r.requests)

apiCreateNote(e, note, out) ==
  LET r == request(e, "POST", out)
      error == normalizeNoteError(r.data, Field(note, "id"))
  IN IF r.threw THEN Settled("rejected", NoFields, r.message, r.requests)
     ELSE IF error # NULL THEN Settled("rejected", NoFields, error, r.requests)
     ELSE Settled("resolved", normalizeNote(r.data.fields, Field(note, "id")), NULL,
                  r.requests)

apiUpdateNote(e, id, patch, out) ==
  LET r == request(e, "PUT", out)
      error == normalizeNoteError(r.data, id)
  IN IF r.threw THEN Settled("rejected", NoFields, r.message, r.requests)
     ELSE IF error # NULL THEN Settled("rejected", NoFields, error, r.requests)
     ELSE Settled("resolved", normalizeNote(r.data.fields, id), NULL, r.requests)

\* ---------------------------------------------- the API service called
JsonBodies(values) == {Body("json", v) : v \in values}

DeleteBodies ==
  {Body("empty", JsonNull), Body("nonjson", JsonNull)}
    \cup JsonBodies({JsonNull, JsonNumber, JsonArray(<< >>)})
    \cup JsonBodies({JsonObject(f) :
                       f \in {NoFields, [ok |-> TRUE], [ok |-> FALSE],
                              [ok |-> TRUE, id |-> "a"]}})

Outcomes(bodies) ==
  {TypeError} \cup {Response(200, b) : b \in bodies}
              \cup {Response(st, Body("nonjson", JsonNull)) : st \in Statuses \ {200}}

ApiEnvs ==
  {e \in Envs : /\ \A name \in DOMAIN e : e[name] \in {<< >>, << "u" >>, << "/" >>}
                /\ "REACT_APP_BACKEND_URL" \in DOMAIN e => e.REACT_APP_BACKEND_URL # << >>}

InitApi ==
  /\ state = initialNotesState
  /\ last = NoAction
  /\ ops = << >>
  /\ ret = NoRet
  /\ editor = initialEditor
  /\ timers = {}
  /\ hist = initialHist
  /\ env \in ApiEnvs
  /\ storage = NoStorage

\* ret after a call of the service: what it was called with (arg), the
\* outcome of fetch, and what its promise settled with.
Call(intent, arg, out, s) ==
  /\ ret' = Merge(Ret(intent, s.phase, "pending"),
                  [error |-> s.error, arg |-> arg, outcome |-> out,
                   result |-> s.value, requests |-> s.requests])
  /\ UNCHANGED << state, last, ops, editor, timers, hist, env, storage >>

CallApiDeleteNote ==
  \E id \in OrchIds, out \in Outcomes(DeleteBodies) :
    Call("api.deleteNote", id, out, apiDeleteNote(env, id, out))

\* The fields of the objects a backend answers with: each of id, title,
\* content and updatedAt left out, of the wrong type, or as it should be.
OptField(name, values) == {NoFields} \cup {[f \in {name} |-> v] : v \in values}

RawNotes ==
  {Merge(Merge(i, t), Merge(c, u)) :
     i \in OptField("id", {NULL, "a", "s"}), t \in OptField("title", {Number, "T1"}),
     c \in OptField("content", {NULL, "C1"}), u \in {NoFields, [updatedAt |-> 1]}}

NoteBodies ==
  {Body("empty", JsonNull), Body("nonjson", JsonNull)}
    \cup JsonBodies({JsonNull, JsonNumber, JsonArray(<< >>)})
    \cup JsonBodies({JsonObject(f) : f \in RawNotes})

\* The items of the arrays a backend answers listNotes with.
RawItems ==
  {JsonNumber}
    \cup {JsonObject(f) :
           f \in {[title |-> "T1"], [id |-> "a", updatedAt |-> 1],
                  [id |-> "b", title |-> "T1", content |-> "C1", updatedAt |-> 2],
                  [id |-> "c", title |-> Number, isPinned |-> TRUE, color |-> "red",
                   updatedAt |-> 1]}}

ListBodies ==
  {Body("empty", JsonNull), Body("nonjson", JsonNull)}
    \cup JsonBodies({JsonNull, JsonObject(NoFields)})
    \cup JsonBodies({JsonArray(<< >>)})
    \cup JsonBodies({JsonArray(<< x >>) : x \in RawItems})
    \cup JsonBodies({JsonArray(<< x, y >>) : x \in RawItems, y \in RawItems})

\* The candidates createNote is called with: with an id and without one.
Candidates ==
  {[id |-> "c", title |-> "Untitled note", content |-> ""],
   [title |-> "Untitled note", content |-> ""]}

CallApiListNotes ==
  \E out \in Outcomes(ListBodies) :
    Call("api.listNotes", NULL, out, apiListNotes(env, out))

CallApiCreateNote ==
  \E note \in Candidates, out \in Outcomes(NoteBodies) :
    Call("api.createNote", note, out, apiCreateNote(env, note, out))

CallApiUpdateNote ==
  \E id \in OrchIds, out \in Outcomes(NoteBodies) :
    Call("api.updateNote", id, out,
         apiUpdateNote(env, id, [title |-> "T2", updatedAt |-> MaxStamp], out))

NextApi ==
  \/ CallApiListNotes
  \/ CallApiCreateNote
  \/ CallApiUpdateNote
  \/ CallApiDeleteNote

SpecApi == InitApi /\ [][NextApi]_vars

\* ------------------------------------------------- API service claims
HttpOk(out) == out.kind = "response" /\ out.status = 200

IsOkTrue(json) == json = JsonObject([ok |-> TRUE])

InvalidDelete == "Invalid response for deleteNote (expected { ok: true } or empty body)."

\* C13: with a base URL in place, deleteNote of the API service resolves to
\* {ok:true} exactly when the HTTP call succeeds and the body is empty or is
\* the JSON object {ok:true}; for every other JSON body of a successful call
\* it rejects with the invalid-response error of deleteNote.
C13_RemoteDelete ==
  (ret.intent = "api.deleteNote" /\ getBaseUrl(env) # << >>) =>
    LET out == ret.outcome
        accepted == /\ HttpOk(out)
                    /\ \/ out.body.text = "empty"
                       \/ out.body.text = "json" /\ IsOkTrue(out.body.json)
    IN /\ (ret.phase = "resolved" /\ ret.result = [ok |-> TRUE]) <=> accepted
       /\ (HttpOk(out) /\ out.body.text = "json" /\ ~IsOkTrue(out.body.json)) =>
            (ret.phase = "rejected" /\ ret.error = InvalidDelete)

ApiIntents == {"api.listNotes", "api.createNote", "api.updateNote", "api.deleteNote"}

Verb(intent) ==
  CASE intent = "api.listNotes" -> "GET"
    [] intent = "api.createNote" -> "POST"
    [] intent = "api.updateNote" -> "PUT"
    [] intent = "api.deleteNote" -> "DELETE"

RejectedWith(message) == ret.phase = "rejected" /\ ret.error = message

\* C14: a call of the API service with no base URL set rejects with 'API base
\* URL not configured' and makes no request; a call whose request fails
\* rejects with the message of the failure: network error naming the HTTP
\* verb, Unauthorized for 401 and 403, endpoint not found for 404, server
\* error with the status from 500 on, invalid response for a body of a
\* successful call that is no JSON.
C14_FriendlyErrors ==
  ret.intent \in ApiIntents =>
    LET out == ret.outcome
        verb == Verb(ret.intent)
    IN /\ (\A name \in DOMAIN env : env[name] = << >>) =>
            (RejectedWith("API base URL not configured") /\ ret.requests = 0)
       /\ ret.requests = 1 =>
            /\ out.kind = "TypeError" =>
                 RejectedWith(verb \o " failed. Network error (check API URL / CORS).")
            /\ (out.kind = "response" /\ out.status \in {401, 403}) =>
                 RejectedWith(verb \o " failed. Unauthorized.")
            /\ (out.kind = "response" /\ out.status = 404) =>
                 RejectedWith(verb \o " failed. Endpoint not found (404).")
            /\ (out.kind = "response" /\ out.status = 500) =>
                 RejectedWith(verb \o " failed. Server error (500).")
            /\ (out.kind = "response" /\ out.status = 503) =>
                 RejectedWith(verb \o " failed. Server error (503).")
            /\ (HttpOk(out) /\ out.body.text = "nonjson") =>
                 RejectedWith("Invalid response (expected JSON).")

C14_Witness ==
  /\ ret.intent = "api.updateNote"
  /\ ret.requests = 1
  /\ ret.outcome.kind = "response" /\ ret.outcome.status = 403
  /\ RejectedWith("PUT failed. Unauthorized.")

\* C15: createNote of the API service, answered with a JSON object, resolves
\* with the id of the response when the response has one and with the id of
\* the candidate when it has none; it rejects with the missing-id error when
\* neither has an id, and with the expected-object error when the answer is
\* no object; a title or content of the response that is no string is
\* replaced by "Untitled note" or the empty string.
C15_RemoteCreate ==
  (/\ ret.intent = "api.createNote"
   /\ ret.requests = 1
   /\ HttpOk(ret.outcome)
   /\ ret.outcome.body.text # "nonjson") =>
    LET data == IF ret.outcome.body.text = "empty" THEN JsonNull
                ELSE ret.outcome.body.json
        candidate == ret.arg
    IN IF data.type # "object"
       THEN RejectedWith("Invalid note response (expected object).")
       ELSE LET raw == data.fields
                supplied == "id" \in DOMAIN raw /\ raw.id # NULL
                fallback == "id" \in DOMAIN candidate
            IN /\ supplied => (ret.phase = "resolved" /\ ret.result.id = raw.id)
               /\ (~supplied /\ fallback) =>
                    (ret.phase = "resolved" /\ ret.result.id = candidate.id)
               /\ (~supplied /\ ~fallback) =>
                    RejectedWith("Invalid note response (missing id).")
               /\ ret.phase = "resolved" =>
                    /\ ret.result.title =
                         IF "title" \in DOMAIN raw /\ raw.title \notin {NULL, Number}
                         THEN raw.title ELSE "Untitled note"
                    /\ ret.result.content =
                         IF "content" \in DOMAIN raw /\ raw.content \notin {NULL, Number}
                         THEN raw.content ELSE ""

C15_Witness ==
  /\ ret.intent = "api.createNote"
  /\ ret.phase = "resolved"
  /\ ret.outcome.body.text = "json"
  /\ ret.outcome.body.json = JsonObject([title |-> Number, content |-> NULL])
  /\ ret.result.id = "c"
  /\ ret.result.title = "Untitled note"
  /\ ret.result.content = ""

\* ----------------------------------------------- the storage service
\* The service of local mode (notesService.js, from STORAGE_KEY on).  A call
\* and the settling of its promise are one step: the functions have no await.
\* A stored array holds objects, the notes this application or an older one
\* wrote: any field but id may be missing or of the wrong type.
MaxStored == 3

\* A readAll that answers, while calls are pending, with the array the oldest
\* of them read.
readAll_snapshot(st) ==
  IF ops = << >> THEN (IF st.kind = "array" THEN st.notes ELSE << >>) ELSE ops[1].seen

\* safeParse(raw, []) of readAll, then Array.isArray
readAll(st) == IF st.kind = "array" THEN st.notes ELSE << >>

\* JSON.stringify keeps the fields of a note, which are never undefined.
writeAll(notes) == [kind |-> "array", notes |-> notes]

\* A normalizeStoredNote that reads no note as pinned.
normalizeStoredNote_unpinned(n) ==
  Merge(n, [title |-> IF IsString(Field(n, "title")) THEN n.title ELSE "Untitled note",
            content |-> IF IsString(Field(n, "content")) THEN n.content ELSE "",
            isPinned |-> FALSE,
            color |-> IF IsString(Field(n, "color")) THEN n.color ELSE "blue"])

normalizeStoredNote(n) ==
  Merge(n, [title |-> IF IsString(Field(n, "title")) THEN n.title ELSE "Untitled note",
            content |-> IF IsString(Field(n, "content")) THEN n.content ELSE "",
            isPinned |-> getIsPinned(n),
            color |-> IF IsString(Field(n, "color")) THEN n.color ELSE "blue"])

\* The comparator of listNotes is that of the reducer's sort without the index:
\* Array.prototype.sort is stable, so the order is that of SortFrom.
storageListNotes(st) ==
  LET notes == readAll(st)
  IN Settled("resolved",
             SortFrom(<< >>, [i \in 1..Len(notes) |-> normalizeStoredNote(notes[i])]),
             NULL, 0)

\* A createNote that stores the note under an updatedAt of its own.
storageCreateNote_restamped(st, note) ==
  [storage |-> writeAll(Append(readAll(st), Merge(note, [updatedAt |-> 0]))),
   settled |-> Settled("resolved", note, NULL, 0)]

storageCreateNote(st, note) ==
  [storage |-> writeAll(Append(readAll(st), note)),
   settled |-> Settled("resolved", note, NULL, 0)]

\* An updateNote that stores the patch as a new note when the id is unknown.
storageUpdateNote_upsert(st, id, patch) ==
  LET notes == readAll(st)
      idx == findIndex(notes, id)
  IN IF idx = 0
     THEN [storage |-> writeAll(Append(notes, Merge([id |-> id], patch))),
           settled |-> Settled("resolved", Merge([id |-> id], patch), NULL, 0)]
     ELSE [storage |-> writeAll(ReplaceAt(notes, idx, Merge(notes[idx], patch))),
           settled |-> Settled("resolved", Merge(notes[idx], patch), NULL, 0)]

storageUpdateNote(st, id, patch) ==
  LET notes == readAll(st)
      idx == findIndex(notes, id)
  IN IF idx = 0
     THEN [storage |-> st, settled |-> Settled("rejected", NoFields, "Note not found", 0)]
     ELSE [storage |-> writeAll(ReplaceAt(notes, idx, Merge(notes[idx], patch))),
           settled |-> Settled("resolved", Merge(notes[idx], patch), NULL, 0)]

storageDeleteNote(st, id) ==
  [storage |-> writeAll(SelectSeq(readAll(st), LAMBDA n : n.id # id)),
   settled |-> Settled("resolved", [ok |-> TRUE], NULL, 0)]

\* ---------------------------------------- the storage service called
StoredNotes ==
  {[id |-> "a", title |-> "T1", content |-> "C1", isPinned |-> FALSE, color |-> "red",
    updatedAt |-> 1],
   [id |-> "a", title |-> Number, updatedAt |-> 2],
   [id |-> "b", title |-> "T1", content |-> "C1", isPinned |-> TRUE, updatedAt |-> 1],
   [id |-> "b", content |-> NULL, color |-> Number],
   [id |-> "c", title |-> "T2", content |-> "C2", isPinned |-> TRUE, color |-> "blue",
    updatedAt |-> 2]}

StorageContents ==
  {NoStorage, [kind |-> "unparsable", notes |-> << >>], [kind |-> "null", notes |-> << >>],
   [kind |-> "object", notes |-> << >>]}
    \cup {writeAll(<< >>)}
    \cup {writeAll(<< x >>) : x \in StoredNotes}
    \cup {writeAll(<< x, y >>) : x \in StoredNotes, y \in StoredNotes}

\* The notes createNote is called with: a note of makeNewNote, and notes with
\* fields missing or of the wrong type.
StorageCandidates ==
  {makeNewNote("n", 2), makeNewNote("a", 1),
   [id |-> "n", title |-> Number, isPinned |-> TRUE, updatedAt |-> 1]}

StoragePatches ==
  {[title |-> "T2", content |-> "C2", updatedAt |-> 2], [isPinned |-> TRUE, updatedAt |-> 2]}

StorageIds == {"a", "b", "n"}

InitStorage ==
  /\ state = initialNotesState
  /\ last = NoAction
  /\ ops = << >>
  /\ ret = NoRet
  /\ editor = initialEditor
  /\ timers = {}
  /\ hist = initialHist
  /\ env = NoFields
  /\ storage \in StorageContents

\* ret after a call of the storage service, and the storage it leaves.
CallStorage(intent, arg, patch, r) ==
  /\ ret' = Merge(Ret(intent, r.settled.phase, "pending"),
                  [error |-> r.settled.error, arg |-> arg, patch |-> patch,
                   result |-> r.settled.value])
  /\ storage' = r.storage
  /\ UNCHANGED << state, last, ops, editor, timers, hist, env >>

CallStorageListNotes ==
  CallStorage("storage.listNotes", NULL, NoFields,
              [storage |-> storage, settled |-> storageListNotes(storage)])

CallStorageCreateNote ==
  \E note \in StorageCandidates :
    /\ Len(readAll(storage)) < MaxStored
    /\ CallStorage("storage.createNote", note, NoFields, storageCreateNote(storage, note))

CallStorageUpdateNote ==
  \E id \in StorageIds, patch \in StoragePatches :
    CallStorage("storage.updateNote", id, patch, storageUpdateNote(storage, id, patch))

CallStorageDeleteNote ==
  \E id \in StorageIds :
    CallStorage("storage.deleteNote", id, NoFields, storageDeleteNote(storage, id))

NextStorage ==
  \/ CallStorageListNotes
  \/ CallStorageCreateNote
  \/ CallStorageUpdateNote
  \/ CallStorageDeleteNote

SpecStorage == InitStorage /\ [][NextStorage]_vars

\* ------------------------------------------------ the services' claims
\* C16: listNotes of either service resolves with as many notes as are stored
\* (the array of the response, the array in storage), each with title,
\* content, isPinned and color present, pinned notes before unpinned ones and
\* updatedAt non-increasing within each group.
C16_ListNormalizedSorted ==
  (ret.intent \in {"api.listNotes", "storage.listNotes"} /\ ret.phase = "resolved") =>
    LET notes == ret.result
        stored == IF ret.intent = "api.listNotes" THEN ret.outcome.body.json.items
                  ELSE readAll(storage)
    IN /\ Len(notes) = Len(stored)
       /\ \A i \in 1..Len(notes) :
            {"title", "content", "isPinned", "color"} \subseteq DOMAIN notes[i]
       /\ IsSorted(notes)

\* C17: updateNote of the storage service with an id no stored note has
\* rejects with the not-found error and leaves the storage as it was; with an
\* id a stored note has it puts the fields of the patch over those of that
\* note, resolves with the result, and leaves every other stored note as it
\* was.
C17_LocalUpdate ==
  [][ret'.intent = "storage.updateNote" =>
       LET id == ret'.arg
           patch == ret'.patch
           notes == readAll(storage)
           after == readAll(storage')
           at == {i \in 1..Len(notes) : notes[i].id = id}
       IN IF at = {}
          THEN /\ ret'.phase = "rejected"
               /\ ret'.error = "Note not found"
               /\ storage' = storage
          ELSE LET idx == CHOOSE i \in at : \A j \in at : i <= j
               IN /\ ret'.phase = "resolved"
                  /\ Len(after) = Len(notes)
                  /\ \A i \in 1..Len(notes) : i # idx => after[i] = notes[i]
                  /\ DOMAIN after[idx] = DOMAIN notes[idx] \cup DOMAIN patch
                  /\ \A f \in DOMAIN patch : after[idx][f] = patch[f]
                  /\ \A f \in DOMAIN notes[idx] \ DOMAIN patch :
                       after[idx][f] = notes[idx][f]
                  /\ ret'.result = after[idx]]_vars

C17_Witness ==
  /\ ret.intent = "storage.updateNote"
  /\ ret.phase = "rejected"
  /\ ret.error = "Note not found"
  /\ Len(readAll(storage)) = 2

\* The notes of a list with the given id.
WithId(notes, id) == SelectSeq(notes, LAMBDA n : n.id = id)

\* C18: for every content of the storage, createNote makes listNotes return
\* one note more, a note with the id of the created one whose title, content,
\* isPinned and color are those of the created one, defaulted where they are
\* missing or of the wrong type; deleteNote leaves no note with the id and
\* resolves with {ok:true}, and a deleteNote of the same id right after it
\* leaves the storage as it is.
C18_LocalRoundTrip ==
  [][/\ ret'.intent = "storage.createNote" =>
          LET note == ret'.arg
              before == storageListNotes(storage).value
              after == storageListNotes(storage').value
          IN /\ Len(after) = Len(before) + 1
             /\ \E i \in 1..Len(after) :
                  /\ Remove(after, i) = before
                  /\ after[i].id = note.id
                  /\ after[i].title =
                       IF "title" \in DOMAIN note /\ note.title \notin {NULL, Number}
                       THEN note.title ELSE "Untitled note"
                  /\ after[i].content =
                       IF "content" \in DOMAIN note /\ note.content \notin {NULL, Number}
                       THEN note.content ELSE ""
                  /\ after[i].isPinned = ("isPinned" \in DOMAIN note /\ note.isPinned)
                  /\ after[i].color =
                       IF "color" \in DOMAIN note /\ note.color \notin {NULL, Number}
                       THEN note.color ELSE "blue"
     /\ ret'.intent = "storage.deleteNote" =>
          /\ ret'.phase = "resolved" /\ ret'.result = [ok |-> TRUE]
          /\ WithId(readAll(storage'), ret'.arg) = << >>
          /\ readAll(storage') = SelectSeq(readAll(storage), LAMBDA n : n.id # ret'.arg)
          /\ (ret.intent = "storage.deleteNote" /\ ret.arg = ret'.arg) =>
               storage' = storage]_vars

C18_Witness ==
  /\ ret.intent = "storage.createNote"
  /\ ret.arg = [id |-> "n", title |-> Number, isPinned |-> TRUE, updatedAt |-> 1]
  /\ storageListNotes(storage).value =
       << [id |-> "n", title |-> "Untitled note", content |-> "", isPinned |-> TRUE,
           color |-> "blue", updatedAt |-> 1] >>

\* ------------------------------------- the orchestrator's notes, claims
\* C19: when a saveNote or a togglePinNote of a note of the collection
\* succeeds (here: its call settles in the step after the one that made it),
\* and the time taken for its payload was not before the note's updatedAt,
\* the note has an updatedAt in state, and not an older one than it had when
\* the intent was called (ret.before).
C19_UpdatedAtNotOlder ==
  [][(/\ ret.intent \in {"saveNote", "togglePinNote"} /\ ret.phase = "issued"
      /\ ret'.intent = ret.intent /\ ret'.phase = "resolved" /\ ret'.id = ret.id
      /\ ops' = Remove(ops, Len(ops))
      /\ ops[Len(ops)].payload.updatedAt >= ret.before
      /\ ret.id \in NoteIds(state'.notes)) =>
       /\ getUpdatedAt(find(state'.notes, ret.id)) # 0
       /\ getUpdatedAt(find(state'.notes, ret.id)) >= ret.before]_vars

HasUniqueIds(notes) ==
  \A i, j \in 1..Len(notes) : notes[i].id = notes[j].id => i = j

\* C20: no two notes of state.notes have the same id, and a step that is
\* neither a load nor the insert of createNote brings no id into the
\* collection that was not in it: no note changes its id.
C20_IdsUniqueAndKept ==
  /\ [](HasUniqueIds(state.notes))
  /\ [][(/\ ret'.intent # "loadNotes"
         /\ ~(ret'.intent = "createNote" /\ ret'.phase = "issued")) =>
          /\ NoteIds(state'.notes) \subseteq NoteIds(state.notes)
          /\ ret'.intent # "deleteNote" => Len(state'.notes) = Len(state.notes)]_vars

C20_Witness ==
  /\ ret.intent = "createNote"
  /\ ret.phase = "resolved"
  /\ ret.id = "s"
  /\ NoteIds(state.notes) = {"a", "b"}

\* ------------------------------------------------- an editing session
\* The editor together with the other handlers that act on the note being
\* edited: Ctrl+S and the editor's Save, Delete and pin buttons.

MaxOverlap == 1

\* The Delete button, the confirm dialog answered with OK.
onDelete ==
  LET sel == selected(state) IN
  /\ sel.id # NULL
  /\ editor.autosaveEpochRef < MaxEpoch
  /\ Len(ops) < MaxInFlight
  /\ timers' = cancel(timers, editor.timer)
  /\ state' = notesReducer(notesReducer(state, [type |-> "DELETE_NOTE", id |-> sel.id]),
                           [type |-> "SAVE_START"])
  /\ last' = Last("SAVE_START", NULL, {}, FALSE)
  /\ ops' = Append(ops, Op("deleteNote", sel.id, [id |-> sel.id], [id |-> sel.id]))
  /\ editor' = [Rendered(editor) EXCEPT !.timer = 0, !.autosaveEpochRef = @ + 1]
  /\ hist' = [hist EXCEPT !.superseded = @ \cup {t.handle : t \in timers},
                          !.coalesced = 0, !.raced = NoRace]
  /\ ret' = [Ret("onDelete", "issued", "pending") EXCEPT !.id = sel.id]
  /\ UNCHANGED << env, storage >>

\* The pin button of the editor.
pinButtonOnClick ==
  \E now \in Nows :
    LET sel == selected(state)
        s1 == notesReducer(state, [type |-> "TOGGLE_PIN_NOTE", id |-> sel.id])
        payload == [isPinned |-> ~getIsPinned(sel), updatedAt |-> now]
    IN /\ sel.id # NULL
       /\ editor.autosaveEpochRef < MaxEpoch
       /\ Len(ops) < MaxInFlight
       /\ timers' = cancel(timers, editor.timer)
       /\ state' = notesReducer(s1, [type |-> "SAVE_START"])
       /\ last' = Last("SAVE_START", NULL, {}, FALSE)
       /\ ops' = Append(ops, Op("togglePinNote", sel.id, payload,
                                Merge(find(s1.notes, sel.id), payload)))
       /\ editor' = [Rendered(editor) EXCEPT !.timer = 0, !.autosaveEpochRef = @ + 1]
       /\ hist' = [hist EXCEPT !.superseded = @ \cup {t.handle : t \in timers},
                               !.coalesced = 0, !.raced = NoRace]
       /\ ret' = [Ret("pinButtonOnClick", "issued", "pending") EXCEPT !.id = sel.id]
       /\ UNCHANGED << env, storage >>

\* Ctrl+S, pressed while fewer than MaxOverlap calls are in flight.
KeyboardSave ==
  /\ Len(ops) < MaxOverlap
  /\ onSave

NextSession ==
  \/ loadNotesResolved
  \/ PassiveEffects
  \/ onChangeTitle
  \/ debouncedAutosave
  \/ KeyboardSave
  \/ onSaveNow
  \/ onDelete
  \/ pinButtonOnClick
  \/ saveNoteResolved
  \/ deleteNoteResolved
  \/ togglePinNoteResolved

SpecSession == InitApp /\ [][NextSession]_vars

\* The steps that issue the persistence call of an explicit save, a pin toggle
\* or a delete of the note that is selected in the editor.
ActsOnEdited ==
  /\ ret'.phase = "issued"
  /\ ret'.intent \in {"onSaveNow", "saveNote", "onDelete", "pinButtonOnClick"}
  /\ ret'.id = state.selectedId

\* C21: the step of an explicit save, pin toggle or delete of the note being
\* edited leaves no autosave timeout pending and has incremented the epoch
\* when it issues its call, and a timeout that was pending at such a step
\* never calls saveNote.
C21_EventsInvalidateAutosave ==
  [][/\ ActsOnEdited => /\ timers' = {}
                        /\ editor'.autosaveEpochRef = editor.autosaveEpochRef + 1
     /\ (ret'.intent = "debouncedAutosave" /\ ret'.handle \in hist.superseded)
          => ret'.phase = "dropped"]_vars

\* The step has called saveNote, which has called the service's updateNote.
SaveIssued ==
  /\ Len(ops') = Len(ops) + 1
  /\ ops'[Len(ops')].kind = "saveNote"

\* The patch the step has called saveNote with.
SavePatch ==
  IF ret'.intent = "debouncedAutosave"
  THEN (CHOOSE t \in timers : t.handle = ret'.handle).patch
  ELSE IF ret'.intent = "onSaveNow"
  THEN [title |-> editor.draftTitle, content |-> editor.draftContent]
  ELSE [title |-> selected(state).title, content |-> selected(state).content]

\* C22: when saveNote is called for a note of the collection, the payload of
\* updateNote is the patch with an updatedAt stamp, and at that call the state
\* holds the note with the patch and that stamp, the notes sorted, the other
\* notes as they were, and status saving.
C22_SaveIsStampedOptimistically ==
  [][(SaveIssued /\ ops'[Len(ops')].id \in NoteIds(state.notes)) =>
       LET op == ops'[Len(ops')]
           old == find(state.notes, op.id)
       IN /\ DOMAIN op.payload = DOMAIN SavePatch \cup {"updatedAt"}
          /\ \A f \in DOMAIN SavePatch : op.payload[f] = SavePatch[f]
          /\ op.payload.updatedAt \in Nows
          /\ find(state'.notes, op.id) = Merge(old, op.payload)
          /\ state'.notes =
               sortNotesPinnedThenUpdatedDesc(
                 ReplaceAt(state.notes, findIndex(state.notes, op.id),
                           Merge(old, op.payload)))
          /\ IsSorted(state'.notes)
          /\ state'.status = "saving"]_vars

\* Ctrl+S for a note whose updatedAt was 0 behind a note stamped 1: the stamp
\* of the save has moved it to the front before the call is answered.
C22_Witness ==
  /\ ret.intent = "saveNote"
  /\ ret.phase = "issued"
  /\ ret.before = 0
  /\ Len(state.notes) = 2
  /\ state.notes[1].id = ret.id
  /\ getUpdatedAt(state.notes[1]) = ops[Len(ops)].payload.updatedAt
  /\ getUpdatedAt(state.notes[2]) = 1
  /\ ~getIsPinned(state.notes[2])
  /\ state.status = "saving"

\* ------------------------------------- the storage service, calls pending
\* The functions of the storage service are async functions without an await:
\* a call runs its body, readAll to writeAll, when it is made, and its promise
\* settles in a later step, the promises of different calls in any order.
\* ops holds the calls whose promise has not settled, each with the array it
\* read (seen), hist.log the calls made,
\* in call order, and hist.start the array stored before the first of them.
MaxCalls == 3

LocalNotes ==
  {[id |-> "a", title |-> "T1", content |-> "C1", isPinned |-> FALSE, updatedAt |-> 1],
   [id |-> "b", title |-> "T1", content |-> "C1", isPinned |-> FALSE, updatedAt |-> 1]}

LocalContents ==
  {NoStorage, writeAll(<< >>)}
    \cup {writeAll(<< x >>) : x \in LocalNotes}
    \cup {writeAll(<< p[1], p[2] >>) :
            p \in {q \in LocalNotes \X LocalNotes : q[1].id # q[2].id}}

LocalCandidates == {makeNewNote("n", 2), makeNewNote("m", 2)}

LocalIds == {"a", "b", "n"}

InitLocal ==
  /\ state = initialNotesState
  /\ last = NoAction
  /\ ops = << >>
  /\ ret = NoRet
  /\ editor = initialEditor
  /\ timers = {}
  /\ storage \in LocalContents
  /\ hist = Merge(initialHist, [log |-> << >>, start |-> readAll(storage)])
  /\ env = NoFields

\* A call as hist.log records it.
LocalCall(kind, id, payload) == [id |-> id, kind |-> kind, payload |-> payload]

\* The call is made: its body has run on the storage and its promise is pending.
Invoke(call, r) ==
  /\ Len(hist.log) < MaxCalls
  /\ storage' = r.storage
  /\ ops' = Append(ops, Merge(call, [settled |-> r.settled, seen |-> readAll(storage)]))
  /\ hist' = [hist EXCEPT !.log = Append(@, call)]
  /\ ret' = [Ret(call.kind, "issued", "pending") EXCEPT !.id = call.id]
  /\ UNCHANGED << state, last, editor, timers, env >>

InvokeCreateNote ==
  \E note \in LocalCandidates :
    Invoke(LocalCall("storage.createNote", note.id, note),
           storageCreateNote(storage, note))

InvokeUpdateNote ==
  \E id \in LocalIds, patch \in StoragePatches :
    Invoke(LocalCall("storage.updateNote", id, patch),
           storageUpdateNote(storage, id, patch))

InvokeDeleteNote ==
  \E id \in LocalIds :
    Invoke(LocalCall("storage.deleteNote", id, NoFields),
           storageDeleteNote(storage, id))

\* safeIds.map((id) => service.updateNote(id, payload)) of bulkPinNotes, for
\* two ids: both calls are made in the step, the second on what the first left.
InvokeBulkUpdate ==
  LET patch == [isPinned |-> TRUE, updatedAt |-> 2]
        c1 == LocalCall("storage.updateNote", "a", patch)
        c2 == LocalCall("storage.updateNote", "b", patch)
        r1 == storageUpdateNote(storage, "a", patch)
        r2 == storageUpdateNote(r1.storage, "b", patch)
    IN /\ Len(hist.log) + 1 < MaxCalls
       /\ storage' = r2.storage
       /\ ops' = ops \o << Merge(c1, [settled |-> r1.settled,
                                       seen |-> readAll(storage)]),
                           Merge(c2, [settled |-> r2.settled,
                                       seen |-> readAll(r1.storage)]) >>
       /\ hist' = [hist EXCEPT !.log = @ \o << c1, c2 >>]
       /\ ret' = Ret("bulkPinNotes", "issued", "pending")
       /\ UNCHANGED << state, last, editor, timers, env >>

\* The promise of a pending call settles.
SettleCall ==
  \E i \in 1..Len(ops) :
    /\ ops' = Remove(ops, i)
    /\ ret' = [Ret(ops[i].kind, ops[i].settled.phase, "pending") EXCEPT !.id = ops[i].id]
    /\ UNCHANGED << state, last, editor, timers, hist, env, storage >>

NextLocal ==
  \/ InvokeCreateNote
  \/ InvokeUpdateNote
  \/ InvokeDeleteNote
  \/ InvokeBulkUpdate
  \/ SettleCall

SpecLocal == InitLocal /\ [][NextLocal]_vars

\* One call applied to the stored array, as the service's functions are
\* documented to act on it.
SeqApply(notes, call) ==
  CASE call.kind = "storage.createNote" -> Append(notes, call.payload)
    [] call.kind = "storage.updateNote" ->
         [i \in 1..Len(notes) |->
            IF i = findIndex(notes, call.id) THEN Merge(notes[i], call.payload)
            ELSE notes[i]]
    [] call.kind = "storage.deleteNote" -> SelectSeq(notes, LAMBDA n : n.id # call.id)

RECURSIVE Replay(_, _)
Replay(notes, log) ==
  IF log = << >> THEN notes ELSE Replay(SeqApply(notes, Head(log)), Tail(log))

\* C23: whatever calls of the storage service are pending, the stored array is
\* the one that the calls made so far leave when they are applied one after
\* another, in the order they were made: no call's write is lost.
C23_LocalCallsSerialize ==
  IF storage.kind = "array"
  THEN storage.notes = Replay(hist.start, hist.log)
  ELSE Replay(hist.start, hist.log) = << >>

\* Three calls were pending together, the first made settled last, and the
\* note created by the first is stored with the update of the second.
C23_Witness ==
  /\ Len(hist.log) = MaxCalls
  /\ ops = << >>
  /\ hist.log[1].kind = "storage.createNote"
  /\ hist.log[2].kind = "storage.updateNote"
  /\ hist.log[2].id = hist.log[1].id
  /\ hist.log[3].kind = "storage.deleteNote"
  /\ ret.intent = "storage.createNote"
  /\ ret.phase = "resolved"
  /\ ret.id = hist.log[1].id
  /\ \E i \in 1..Len(storage.notes) :
        /\ storage.notes[i].id = hist.log[1].id
        /\ storage.notes[i].title = "T2"

\* The effects of the last render but the edit's have run on the selected note
\* as it is: the edit is the one event since.
EffectsSawSelected ==
  LET sel == selected(state) IN
  editor.deps[1] = sel.id /\ editor.deps[2] = sel.title /\ editor.deps[3] = sel.content

\* C24: the effects of the render that follows an edit leave the edit's timeout
\* pending with the epoch it was scheduled under, so that the timeout, when it
\* runs with no other event in between, calls saveNote with the edit.
C24_EditReachesAutosave ==
  [][/\ (ret.intent \in {"onChangeTitle", "onChangeContent"}
           /\ EffectsSawSelected
           /\ ret'.intent = "PassiveEffects")
          => \E t \in timers' : /\ t.handle = ret.handle
                                /\ t.patch = hist.lastEdit
                                /\ t.epoch = editor'.autosaveEpochRef
     /\ (ret.intent = "PassiveEffects" /\ ret'.intent = "debouncedAutosave"
           /\ ret'.handle = hist.nextHandle - 1)
          => ret'.phase = "issued"]_vars

\* --------------------------------------------- the status with calls pending
\* C25: while a call of the service started by an intent has not settled, the
\* status is saving or loading, never idle.
C25_BusyWhileCallsPending ==
  ops # << >> => state.status \in {"saving", "loading"}

\* C26: the error is set only in a state whose status is error.
C26_ErrorOnlyWithErrorStatus ==
  state.error # NULL => state.status = "error"

\* ------------------------------------------------- the selection and ids
\* C27: the selection is null or the id of a note of the collection.
C27_SelectionInCollection ==
  state.selectedId = NULL \/ state.selectedId \in NoteIds(state.notes)

\* The kinds of call whose answer carries a note.
NoteCalls == {"createNote", "saveNote", "togglePinNote"}

\* C28: when a call for a note settles after the note was taken out of the
\* collection, the note is not put back and neither the collection nor the
\* selection changes.
C28_NoResurrection ==
  [][\A i \in 1..Len(ops) :
       (/\ ops' = Remove(ops, i)
        /\ ops[i].kind \in NoteCalls
        /\ ops[i].id \notin NoteIds(state.notes))
         => /\ ops[i].id \notin NoteIds(state'.notes)
            /\ state'.notes = state.notes
            /\ state'.selectedId = state.selectedId]_vars

\* A save of a note has resolved after deleteNote removed the note, the call of
\* deleteNote still pending, and another note is left and selected.
C28_Witness ==
  /\ ret.intent = "saveNote"
  /\ ret.phase = "resolved"
  /\ ret.id \notin NoteIds(state.notes)
  /\ \E j \in 1..Len(ops) : ops[j].kind = "deleteNote" /\ ops[j].id = ret.id
  /\ state.selectedId \in NoteIds(state.notes)

\* ------------------------------------------ the intents over the storage
\* Local mode: the provider's service is the storage service.  An intent and
\* the call it awaits are one step here: each intent has completed before the
\* next begins.  localStorage holds what was last written to it.
SavePatches == {[title |-> t, content |-> c] : t \in Titles, c \in Contents}

\* The provider after the mount's loadNotes has completed on an empty storage.
InitLocalOrch ==
  /\ state = notesReducer(notesReducer(initialNotesState, [type |-> "LOAD_START"]),
                          [type |-> "LOAD_SUCCESS", notes |-> << >>,
                           selectedId |-> NULL])
  /\ last = Last("LOAD_SUCCESS", NULL, {NULL}, FALSE)
  /\ ops = << >>
  /\ ret = Ret("loadNotes", "resolved", "pending")
  /\ editor = initialEditor
  /\ timers = {}
  /\ hist = initialHist
  /\ env = NoFields
  /\ storage = NoStorage

\* What an intent leaves, but for the state, once its call has settled.
Completed(intent, id, r, value) ==
  /\ storage' = r.storage
  /\ last' = Last(IF r.settled.phase = "resolved" THEN "SAVE_END" ELSE "SAVE_ERROR",
                  id, {}, FALSE)
  /\ ret' = [Ret(intent, r.settled.phase, value) EXCEPT !.id = id,
                                                       !.error = r.settled.error]
  /\ editor' = Rendered(editor)
  /\ UNCHANGED << ops, timers, hist, env >>

\* The dispatches of an intent after service.updateNote has settled.
AfterUpdate(st, id, r) ==
  IF r.settled.phase = "resolved"
  THEN notesReducer(IF r.settled.value.id = id
                    THEN notesReducer(st, [type |-> "UPDATE_NOTE", id |-> id,
                                           patch |-> r.settled.value])
                    ELSE st,
                    [type |-> "SAVE_END"])
  ELSE notesReducer(st, [type |-> "SAVE_ERROR", error |-> r.settled.error])

createNoteLocal ==
  \E id \in OrchIds, now \in Nows :
    LET note == makeNewNote(id, now)
        s1 == notesReducer(state, [type |-> "CREATE_NOTE", note |-> note])
        s2 == notesReducer(s1, [type |-> "SAVE_START"])
        r == storageCreateNote(storage, note)
        created == r.settled.value
        s3 == IF created.id = note.id
              THEN notesReducer(s2, [type |-> "UPDATE_NOTE", id |-> note.id,
                                     patch |-> created])
              ELSE s2
    IN /\ id \notin NoteIds(state.notes)
       /\ state' = notesReducer(s3, [type |-> "SAVE_END"])
       /\ Completed("createNote", created.id, r, "note")

saveNoteLocal ==
  \E id \in OrchIds, patch \in SavePatches, now \in Nows :
    LET payload == Merge(patch, [updatedAt |-> now])
        s1 == notesReducer(state, [type |-> "UPDATE_NOTE", id |-> id, patch |-> patch])
        s2 == notesReducer(s1, [type |-> "SAVE_START"])
        s3 == notesReducer(s2, [type |-> "UPDATE_NOTE", id |-> id, patch |-> payload])
        r == storageUpdateNote(storage, id, payload)
    IN /\ state' = AfterUpdate(s3, id, r)
       /\ Completed("saveNote", id, r,
                    IF r.settled.phase = "resolved" THEN "true" ELSE "false")

togglePinNoteLocal ==
  \E id \in OrchIds, now \in Nows :
    LET note == find(state.notes, id)
        s1 == notesReducer(state, [type |-> "TOGGLE_PIN_NOTE", id |-> id])
        s2 == notesReducer(s1, [type |-> "SAVE_START"])
        r == storageUpdateNote(storage, id,
                               [isPinned |-> ~getIsPinned(note), updatedAt |-> now])
    IN /\ findIndex(state.notes, id) # 0
       /\ state' = AfterUpdate(s2, id, r)
       /\ Completed("togglePinNote", id, r,
                    IF r.settled.phase = "resolved" THEN "true" ELSE "false")

deleteNoteLocal ==
  \E id \in OrchIds :
    LET s1 == notesReducer(state, [type |-> "DELETE_NOTE", id |-> id])
        s2 == notesReducer(s1, [type |-> "SAVE_START"])
        r == storageDeleteNote(storage, id)
    IN /\ state' = IF r.settled.value.ok = TRUE
                   THEN notesReducer(s2, [type |-> "SAVE_END"])
                   ELSE notesReducer(s2, [type |-> "SAVE_ERROR",
                                          error |-> "Delete did not complete successfully."])
       /\ Completed("deleteNote", id, r, "true")

NextLocalOrch ==
  \/ createNoteLocal
  \/ saveNoteLocal
  \/ togglePinNoteLocal
  \/ deleteNoteLocal

SpecLocalOrch == InitLocalOrch /\ [][NextLocalOrch]_vars

\* The fields of a note that the state and the storage are compared on.
Persisted(n) ==
  [id |-> n.id, title |-> Field(n, "title"), content |-> Field(n, "content"),
   isPinned |-> Field(n, "isPinned"), updatedAt |-> Field(n, "updatedAt")]

\* C29: after every intent the notes of the state and the stored notes have the
\* same ids, one note per id, and for every id the same title, content,
\* isPinned and updatedAt.
C29_StateMatchesStorage ==
  LET stored == readAll(storage) IN
  /\ NoteIds(state.notes) = NoteIds(stored)
  /\ Len(state.notes) = Len(stored)
  /\ Cardinality(NoteIds(stored)) = Len(stored)
  /\ \A i \in 1..Len(state.notes) :
       Persisted(state.notes[i]) = Persisted(find(stored, state.notes[i].id))

\* Two notes are held, in the state in another order than in the storage; the
\* one created first has been saved under a new title and pinned.
C29_Witness ==
  /\ ret.intent = "togglePinNote"
  /\ ret.phase = "resolved"
  /\ Len(state.notes) = 2
  /\ Len(readAll(storage)) = 2
  /\ state.notes[1].id = readAll(storage)[1].id
  /\ state.notes[1].id = ret.id
  /\ state.notes[1].isPinned = TRUE
  /\ state.notes[1].title = "T2"
  /\ state.notes[1].updatedAt = 1
  /\ state.notes[2].updatedAt = 2
  /\ readAll(storage)[1].isPinned = TRUE

\* C30: the note createNote returns when its call has resolved has the id of
\* the note the intent inserted, the id of a note of the collection when the
\* inserted note is still there.
C30_CreatedIdIsInsertedId ==
  [][\A i \in 1..Len(ops) :
       (/\ ops' = Remove(ops, i)
        /\ ops[i].kind = "createNote"
        /\ ret'.intent = "createNote"
        /\ ret'.phase = "resolved")
         => /\ ret'.id = ops[i].id
            /\ ops[i].id \in NoteIds(state.notes) => ret'.id \in NoteIds(state'.notes)]_vars

====
